---- MODULE Spec2Model ----
(***************************************************************************)
(* A model of the di-extended dependency-injection container               *)
(* (pkg/container: Container, LifecycleManager, ProfileManager, Scope).    *)
(*                                                                         *)
(* Service values are object identities (Go pointers); two values are the  *)
(* same instance iff they are the same identity.  Each call of the public  *)
(* API is one action of the sequential specification Spec; its return      *)
(* value, the handlers it invoked (in order) and, for InjectStruct, the    *)
(* target's fields are recorded in the variable last.                      *)
(***************************************************************************)
EXTENDS Integers, Sequences, FiniteSets, TLC

\* ------------------------------------------------------------------ bounds
NumContainers == 3
MaxAspects == 2
MaxHooks == 2
MaxProfiles == 2
NumFields == 3
NumThreads == 3

\* --------------------------------------------------------------- universes
Containers == 1..NumContainers
NoContainer == 0

Qualifiers == {"a", "b", "c"}

Nil == "nil"
\* v1, v2: two instances of a type with PostConstruct/PreDestroy
\* (testServiceImpl); v3: an instance of a type without them.
Values == {"v1", "v2", "v3"}
OldValue == "old"
\* the two structs handed to InjectStruct: one with PostConstruct/PreDestroy, one without
LifecycleTarget == "lifecycleTarget"
PlainTarget == "plainTarget"
Targets == {LifecycleTarget, PlainTarget}

Singleton == 0
Prototype == 1
Request == 2
Session == 3
Scopes == {Singleton, Prototype, Request, Session}

NoErr == "ok"

LifecycleAware(v) == v \in {"v1", "v2", LifecycleTarget}

\* dynamic type of a value, and the field types it is assignable to
TypeOf(v) == IF v \in {"v1", "v2"} THEN "*testServiceImpl" ELSE "*plain"
FieldTypes == {"TestService", "*plain"}
AssignableTo(t, ft) ==
    \/ t = "*testServiceImpl" /\ ft = "TestService"
    \/ t = "*plain" /\ ft = "*plain"

Threads == 1..NumThreads
NoThread == 0

NoDesc == [Scope |-> -1, Instance |-> Nil, Factory |-> Nil]

\* the containers' state, and the latest call of the sequential API
VARIABLES services, parent, postConstructHooks, preDestroyHooks, active,
          aspects, last
\* concurrent callers: each container's sync.RWMutex, and for every thread its
\* call, its position in it and what it has returned and invoked so far
VARIABLES mu, call, pc, ret
\* every thread's local variables: the containers whose read lock its nested
\* Resolve frames hold, and the slice value it has read
VARIABLES locals

threadvars == <<mu, call, pc, ret, locals>>

vars == <<services, parent, postConstructHooks, preDestroyHooks, active,
          aspects, last, mu, call, pc, ret, locals>>

\* the record of the latest API call: its arguments, what it returned and the
\* handlers it invoked, in order
NoCall == [op |-> "none", c |-> NoContainer, q |-> "", svc |-> Nil, scope |-> -1,
           val |-> Nil, prev |-> Nil, err |-> NoErr, events |-> <<>>, failing |-> {},
           kind |-> "", target |-> Nil, shape |-> <<>>, before |-> <<>>,
           after |-> <<>>, order |-> <<>>, jp |-> [Error |-> Nil],
           profiles |-> <<>>, ok |-> FALSE, hook |-> Nil,
           aspect |-> Nil]

Unlocked == [writer |-> NoThread, readers |-> {}, pending |-> {}]
NoReturn == [val |-> Nil, err |-> NoErr, events |-> <<>>]
NoLocals == [stack |-> <<>>, slice |-> <<>>]
Idle == [op |-> "none", c |-> NoContainer, q |-> "", svc |-> Nil, scope |-> -1]

InitContainers ==
    /\ services = [c \in Containers |-> [q \in Qualifiers |-> NoDesc]]
    /\ parent = [c \in Containers |-> NoContainer]
    /\ postConstructHooks = [c \in Containers |-> <<>>]
    /\ preDestroyHooks = [c \in Containers |-> <<>>]
    /\ active = [c \in Containers |-> <<>>]
    /\ aspects = [c \in Containers |-> <<>>]
    /\ last = NoCall
    /\ mu = [c \in Containers |-> Unlocked]
    /\ ret = [t \in Threads |-> NoReturn]
    /\ locals = [t \in Threads |-> NoLocals]

\* the sequential API: no concurrent caller
Init ==
    /\ InitContainers
    /\ call = [t \in Threads |-> Idle]
    /\ pc = [t \in Threads |-> "done"]

Event(kind, name, obj, ok) == [kind |-> kind, name |-> name, obj |-> obj, ok |-> ok]

NoEvents == <<>>

\* for _, hook := range hooks { if err := hook.Handler(obj); err != nil { return } }
\* A handler is modelled by the set of objects it returns an error for.
RECURSIVE RunHooks(_, _, _, _)
RunHooks(hooks, i, obj, kind) ==
    IF i > Len(hooks) THEN [err |-> NoErr, events |-> NoEvents]
    ELSE IF obj \in hooks[i].FailOn
         THEN [err |-> kind, events |-> <<Event(kind, hooks[i].Name, obj, FALSE)>>]
         ELSE LET rest == RunHooks(hooks, i + 1, obj, kind)
              IN [err |-> rest.err,
                  events |-> <<Event(kind, hooks[i].Name, obj, TRUE)>> \o rest.events]

\* if lifecycleAware, ok := obj.(LifecycleAware); ok { hooks...; PostConstruct() }
\* failing: the objects whose PostConstruct/PreDestroy returns an error in this call.
PostConstructOf(hooks, obj, failing) ==
    IF ~LifecycleAware(obj) THEN [err |-> NoErr, events |-> NoEvents]
    ELSE LET h == RunHooks(hooks, 1, obj, "post-construct hook")
         IN IF h.err # NoErr
            THEN [err |-> "post-construct hook failed", events |-> h.events]
            ELSE [err |-> IF obj \in failing THEN "post-construct failed" ELSE NoErr,
                  events |-> h.events \o
                             <<Event("PostConstruct", "", obj, obj \notin failing)>>]

\* a teardown that calls PreDestroy first and the hooks after it
PreDestroyBeforeHooks(hooks, obj, failing) ==
    IF ~LifecycleAware(obj) THEN [err |-> NoErr, events |-> NoEvents]
    ELSE LET own == <<Event("PreDestroy", "", obj, obj \notin failing)>>
             h == RunHooks(hooks, 1, obj, "pre-destroy hook")
         IN IF obj \in failing THEN [err |-> "pre-destroy failed", events |-> own]
            ELSE [err |-> IF h.err # NoErr THEN "pre-destroy hook failed" ELSE NoErr,
                  events |-> own \o h.events]

PreDestroyOf(hooks, obj, failing) ==
    IF ~LifecycleAware(obj) THEN [err |-> NoErr, events |-> NoEvents]
    ELSE LET h == RunHooks(hooks, 1, obj, "pre-destroy hook")
         IN IF h.err # NoErr
            THEN [err |-> "pre-destroy hook failed", events |-> h.events]
            ELSE [err |-> IF obj \in failing THEN "pre-destroy failed" ELSE NoErr,
                  events |-> h.events \o
                             <<Event("PreDestroy", "", obj, obj \notin failing)>>]

\* ---------------------------------------------------------------- Register
\* a descriptor whose Instance is left unset whatever the scope
NewScopedServiceLazy(service, scope) ==
    [Scope |-> scope, Instance |-> Nil, Factory |-> service]

NewScopedService(service, scope) ==
    [Scope |-> scope,
     Instance |-> IF scope = Singleton THEN service ELSE Nil,
     Factory |-> service]

\* Register without the duplicate check: a second registration overwrites
RegisterOverwriting(c, q, service, scope, failing) ==
    IF service = Nil
    THEN [err |-> "cannot register nil service", events |-> NoEvents]
    ELSE IF scope = Singleton
    THEN PostConstructOf(postConstructHooks[c], service, failing)
    ELSE [err |-> NoErr, events |-> NoEvents]

\* Register without the nil check
RegisterNilAccepted(c, q, service, scope, failing) ==
    IF services[c][q] # NoDesc
    THEN [err |-> "service already registered", events |-> NoEvents]
    ELSE IF scope = Singleton
    THEN PostConstructOf(postConstructHooks[c], service, failing)
    ELSE [err |-> NoErr, events |-> NoEvents]

RegisterOutcome(c, q, service, scope, failing) ==
    IF service = Nil
    THEN [err |-> "cannot register nil service", events |-> NoEvents]
    ELSE IF services[c][q] # NoDesc
    THEN [err |-> "service already registered", events |-> NoEvents]
    ELSE IF scope = Singleton
    THEN PostConstructOf(postConstructHooks[c], service, failing)
    ELSE [err |-> NoErr, events |-> NoEvents]

InsertService(c, q, d) == [services EXCEPT ![c][q] = d]

\* a Register that stores the descriptor before the lifecycle has succeeded
ServicesAfterEager(c, q, service, scope, err) ==
    IF err \in {NoErr, "post-construct hook failed", "post-construct failed"}
    THEN InsertService(c, q, NewScopedService(service, scope))
    ELSE services

\* the qualifier map when Register returns: every error return comes before
\* the insert
ServicesAfter(c, q, service, scope, err) ==
    IF err = NoErr THEN InsertService(c, q, NewScopedService(service, scope))
    ELSE services

Alive == last.err # "stack overflow"

Register(c, q, service, scope, failing) ==
    LET r == RegisterOutcome(c, q, service, scope, failing) IN
    /\ Alive
    /\ services' = ServicesAfter(c, q, service, scope, r.err)
    /\ last' = [NoCall EXCEPT !.op = "Register", !.c = c, !.q = q, !.svc = service,
                              !.scope = scope, !.err = r.err, !.events = r.events]
    /\ UNCHANGED <<parent, postConstructHooks, preDestroyHooks, active, aspects>>
    /\ UNCHANGED threadvars

\* ----------------------------------------------------------------- Resolve
\* Resolve that treats a Singleton like a Prototype: the factory and the
\* lifecycle run on every call instead of returning the cached instance
ResolveLocalUncached(c, d, failing) ==
    IF d.Scope \in {Singleton, Prototype}
    THEN LET post == PostConstructOf(postConstructHooks[c], d.Factory, failing)
         IN [val |-> IF post.err = NoErr THEN d.Factory ELSE Nil,
             err |-> post.err,
             events |-> <<Event("Factory", "", d.Factory, TRUE)>> \o post.events]
    ELSE [val |-> Nil, err |-> "unsupported scope", events |-> NoEvents]

\* Resolve that serves every scope but Singleton from the factory
ResolveLocalAnyScope(c, d, failing) ==
    IF d.Scope = Singleton
    THEN IF d.Instance = Nil
         THEN [val |-> Nil, err |-> "singleton instance is nil", events |-> NoEvents]
         ELSE [val |-> d.Instance, err |-> NoErr, events |-> NoEvents]
    ELSE LET post == PostConstructOf(postConstructHooks[c], d.Factory, failing)
         IN [val |-> IF post.err = NoErr THEN d.Factory ELSE Nil,
             err |-> post.err,
             events |-> <<Event("Factory", "", d.Factory, TRUE)>> \o post.events]

ResolveLocal(c, d, failing) ==
    IF d.Scope = Singleton
    THEN IF d.Instance = Nil
         THEN [val |-> Nil, err |-> "singleton instance is nil", events |-> NoEvents]
         ELSE [val |-> d.Instance, err |-> NoErr, events |-> NoEvents]
    ELSE IF d.Scope = Prototype
    THEN LET instance == d.Factory
             made == <<Event("Factory", "", instance, TRUE)>>
         IN IF instance = Nil
            THEN [val |-> Nil, err |-> "factory produced nil instance", events |-> made]
            ELSE LET post == PostConstructOf(postConstructHooks[c], instance, failing)
                 IN [val |-> IF post.err = NoErr THEN instance ELSE Nil,
                     err |-> post.err, events |-> made \o post.events]
    ELSE [val |-> Nil, err |-> "unsupported scope", events |-> NoEvents]

\* An acyclic parent chain has fewer than NumContainers links: a walk that
\* needs more is on a cycle, where the recursion of Resolve never returns and
\* the goroutine's stack overflows (a fatal error of the process).
MaxDepth == NumContainers

\* Resolve that looks one level up only: the parent's own map, not its parents
ResolveInOneLevel(c, q, failing, depth) ==
    IF services[c][q] # NoDesc THEN ResolveLocal(c, services[c][q], failing)
    ELSE IF parent[c] # NoContainer /\ services[parent[c]][q] # NoDesc
    THEN ResolveLocal(parent[c], services[parent[c]][q], failing)
    ELSE [val |-> Nil, err |-> "no service found", events |-> NoEvents]

\* Resolve that asks the parent first and its own map only after it
ResolveInParentFirst(c, q, failing, depth) ==
    IF parent[c] # NoContainer /\ services[parent[c]][q] # NoDesc
    THEN ResolveLocal(parent[c], services[parent[c]][q], failing)
    ELSE IF services[c][q] # NoDesc THEN ResolveLocal(c, services[c][q], failing)
    ELSE [val |-> Nil, err |-> "no service found", events |-> NoEvents]

RECURSIVE ResolveIn(_, _, _, _)
ResolveIn(c, q, failing, depth) ==
    IF services[c][q] = NoDesc
    THEN IF parent[c] # NoContainer
         THEN IF depth = 0
              THEN [val |-> Nil, err |-> "stack overflow", events |-> NoEvents]
              ELSE ResolveIn(parent[c], q, failing, depth - 1)
         ELSE [val |-> Nil, err |-> "no service found", events |-> NoEvents]
    ELSE ResolveLocal(c, services[c][q], failing)

ResolveOutcome(c, q, failing) == ResolveIn(c, q, failing, MaxDepth)

\* what the call before this one returned, when it was a Resolve of the same
\* qualifier on the same container
PreviousResult(c, q) ==
    IF last.op = "Resolve" /\ last.c = c /\ last.q = q THEN last.val ELSE Nil

Resolve(c, q, failing) ==
    LET r == ResolveOutcome(c, q, failing) IN
    /\ Alive
    /\ last' = [NoCall EXCEPT !.op = "Resolve", !.c = c, !.q = q, !.val = r.val,
                              !.prev = PreviousResult(c, q),
                              !.err = r.err, !.events = r.events]
    /\ UNCHANGED <<services, parent, postConstructHooks, preDestroyHooks, active,
                   aspects>>
    /\ UNCHANGED threadvars

\* --------------------------------------------------------------- SetParent
SetParent(c, p) ==
    /\ Alive
    /\ parent' = [parent EXCEPT ![c] = p]
    /\ last' = [NoCall EXCEPT !.op = "SetParent", !.c = c]
    /\ UNCHANGED <<services, postConstructHooks, preDestroyHooks, active, aspects>>
    /\ UNCHANGED threadvars

\* ----------------------------------------------------------------- Cleanup
\* `for qualifier, service := range c.services`: Go iterates a map in an
\* unspecified order; order is the order of this call.
\* Cleanup that goes on after a failure and returns the first error
RECURSIVE CleanupBestEffort(_, _, _, _)
CleanupBestEffort(c, order, i, failing) ==
    IF i > Len(order) THEN [err |-> NoErr, events |-> NoEvents]
    ELSE LET d == services[c][order[i]]
             pd == IF d # NoDesc /\ d.Scope = Singleton /\ d.Instance # Nil
                   THEN PreDestroyOf(preDestroyHooks[c], d.Instance, failing)
                   ELSE [err |-> NoErr, events |-> NoEvents]
             rest == CleanupBestEffort(c, order, i + 1, failing)
         IN [err |-> IF pd.err # NoErr THEN pd.err ELSE rest.err,
             events |-> pd.events \o rest.events]

\* Cleanup that tears down what a Prototype descriptor made as well
RECURSIVE CleanupAnyScope(_, _, _, _)
CleanupAnyScope(c, order, i, failing) ==
    IF i > Len(order) THEN [err |-> NoErr, events |-> NoEvents]
    ELSE LET d == services[c][order[i]]
             pd == IF d # NoDesc /\ d.Scope \in {Singleton, Prototype}
                   THEN PreDestroyOf(preDestroyHooks[c], d.Factory, failing)
                   ELSE [err |-> NoErr, events |-> NoEvents]
         IN IF pd.err # NoErr THEN pd
            ELSE LET rest == CleanupAnyScope(c, order, i + 1, failing)
                 IN [err |-> rest.err, events |-> pd.events \o rest.events]

RECURSIVE CleanupFrom(_, _, _, _)
CleanupFrom(c, order, i, failing) ==
    IF i > Len(order) THEN [err |-> NoErr, events |-> NoEvents]
    ELSE LET d == services[c][order[i]]
             pd == IF d # NoDesc /\ d.Scope = Singleton /\ d.Instance # Nil
                   THEN PreDestroyOf(preDestroyHooks[c], d.Instance, failing)
                   ELSE [err |-> NoErr, events |-> NoEvents]
         IN IF pd.err # NoErr THEN pd
            ELSE LET rest == CleanupFrom(c, order, i + 1, failing)
                 IN [err |-> rest.err, events |-> pd.events \o rest.events]

Registered(c) == {q \in Qualifiers : services[c][q] # NoDesc}

Orders(S) == {o \in [1..Cardinality(S) -> S] : \A i, j \in DOMAIN o : i # j => o[i] # o[j]}

\* a Cleanup that empties the container's map
ClearedServices(c) == [services EXCEPT ![c] = [q \in Qualifiers |-> NoDesc]]

\* the qualifier map when Cleanup returns: the loop only reads c.services
CleanedServices(c) == services

Cleanup(c, order, failing) ==
    LET r == CleanupFrom(c, order, 1, failing) IN
    /\ Alive
    /\ services' = CleanedServices(c)
    /\ last' = [NoCall EXCEPT !.op = "Cleanup", !.c = c, !.err = r.err,
                              !.events = r.events, !.order = order,
                              !.failing = failing]
    /\ UNCHANGED <<parent, postConstructHooks, preDestroyHooks, active, aspects>>
    /\ UNCHANGED threadvars

\* Cleanup called again: the call right after a Cleanup of the same container,
\* recorded with what that Cleanup returned
CleanupAgain(c, order, failing) ==
    LET r == CleanupFrom(c, order, 1, failing) IN
    /\ Alive
    /\ last.op = "Cleanup" /\ last.c = c
    /\ services' = CleanedServices(c)
    /\ last' = [NoCall EXCEPT !.op = "Cleanup", !.c = c, !.err = r.err,
                              !.events = r.events, !.order = order,
                              !.failing = failing, !.prev = last.err]
    /\ UNCHANGED <<parent, postConstructHooks, preDestroyHooks, active, aspects>>
    /\ UNCHANGED threadvars

\* ------------------------------------------------------- lifecycle hooks
\* an Add...Hook that keeps one copy of a hook
AppendedHookOnce(list, hook) ==
    IF \E i \in 1..Len(list) : list[i] = hook THEN list ELSE Append(list, hook)

\* lm.postConstructHooks = append(lm.postConstructHooks, hook)
AppendedHook(list, hook) == Append(list, hook)

\* c.GetLifecycleManager().AddPostConstructHook(hook): an append, under no lock
AddPostConstructHook(c, hook) ==
    /\ Alive
    /\ Len(postConstructHooks[c]) < MaxHooks
    /\ postConstructHooks' = [postConstructHooks EXCEPT ![c] = AppendedHook(@, hook)]
    /\ last' = [NoCall EXCEPT !.op = "AddPostConstructHook", !.c = c, !.hook = hook]
    /\ UNCHANGED <<services, parent, preDestroyHooks, active, aspects>>
    /\ UNCHANGED threadvars

AddPreDestroyHook(c, hook) ==
    /\ Alive
    /\ Len(preDestroyHooks[c]) < MaxHooks
    /\ preDestroyHooks' = [preDestroyHooks EXCEPT ![c] = AppendedHook(@, hook)]
    /\ last' = [NoCall EXCEPT !.op = "AddPreDestroyHook", !.c = c, !.hook = hook]
    /\ UNCHANGED <<services, parent, postConstructHooks, active, aspects>>
    /\ UNCHANGED threadvars

\* ------------------------------------------------ profiles and aspects
\* a SetActiveProfiles that adds the names to the active ones
AppendedProfiles(old, profiles) == old \o profiles

\* c.profileManager.active = profiles
ReplacedProfiles(old, profiles) == profiles

SetActiveProfiles(c, profiles) ==
    /\ Alive
    /\ active' = [active EXCEPT ![c] = ReplacedProfiles(@, profiles)]
    /\ last' = [NoCall EXCEPT !.op = "SetActiveProfiles", !.c = c,
                              !.profiles = profiles]
    /\ UNCHANGED <<services, parent, postConstructHooks, preDestroyHooks, aspects>>
    /\ UNCHANGED threadvars

\* for _, active := range c.profileManager.active { if active == profileName ... }
RECURSIVE ProfileActiveFrom(_, _, _)
ProfileActiveFrom(list, i, profileName) ==
    IF i > Len(list) THEN FALSE
    ELSE IF list[i] = profileName THEN TRUE
    ELSE ProfileActiveFrom(list, i + 1, profileName)

IsProfileActiveOutcome(c, profileName) == ProfileActiveFrom(active[c], 1, profileName)

IsProfileActive(c, profileName) ==
    /\ Alive
    /\ last' = [NoCall EXCEPT !.op = "IsProfileActive", !.c = c, !.q = profileName,
                              !.ok = IsProfileActiveOutcome(c, profileName)]
    /\ UNCHANGED <<services, parent, postConstructHooks, preDestroyHooks, active,
                   aspects>>
    /\ UNCHANGED threadvars

\* (pc *ProfileCondition).Matches(container): container.IsProfileActive(pc.ProfileName)
Matches(profileName, c) ==
    /\ Alive
    /\ last' = [NoCall EXCEPT !.op = "Matches", !.c = c, !.q = profileName,
                              !.ok = IsProfileActiveOutcome(c, profileName)]
    /\ UNCHANGED <<services, parent, postConstructHooks, preDestroyHooks, active,
                   aspects>>
    /\ UNCHANGED threadvars

AddAspect(c, aspect) ==
    /\ Alive
    /\ Len(aspects[c]) < MaxAspects
    /\ aspects' = [aspects EXCEPT ![c] = Append(@, aspect)]
    /\ last' = [NoCall EXCEPT !.op = "AddAspect", !.c = c, !.aspect = aspect]
    /\ UNCHANGED <<services, parent, postConstructHooks, preDestroyHooks, active>>
    /\ UNCHANGED threadvars

\* aop.AspectKind
Before == 0
After == 1
Around == 2
AfterReturning == 3
AfterThrowing == 4
AspectKinds == {Before, After, Around, AfterReturning, AfterThrowing}
\* a Kind() outside the declared constants: no case of the switch matches
UnknownKind == 5

PhaseName(kind) ==
    IF kind = Before THEN "before aspect failed"
    ELSE IF kind = After THEN "after aspect failed"
    ELSE IF kind = Around THEN "around aspect failed"
    ELSE IF kind = AfterReturning THEN "after returning aspect failed"
    ELSE "after throwing aspect failed"

\* a dispatch that ignores the join point's error
DispatchesUngated(aspect, jp) == aspect.Kind \in AspectKinds

\* the switch on aspect.Kind(): does this aspect's advice get invoked for jp?
Dispatches(aspect, jp) ==
    \/ aspect.Kind \in {Before, After, Around, AfterReturning}
    \/ aspect.Kind = AfterThrowing /\ jp.Error # Nil

\* an ExecuteAspects that goes on after a failed advice and returns the
\* first error
RECURSIVE ExecuteFromBestEffort(_, _, _)
ExecuteFromBestEffort(list, i, jp) ==
    IF i > Len(list) THEN [err |-> NoErr, events |-> NoEvents]
    ELSE LET rest == ExecuteFromBestEffort(list, i + 1, jp) IN
         IF ~Dispatches(list[i], jp) THEN rest
         ELSE [err |-> IF list[i].Fails THEN PhaseName(list[i].Kind) ELSE rest.err,
               events |-> <<Event("Advice", i, jp, ~list[i].Fails)>> \o rest.events]

\* for _, aspect := range c.aspectManager.GetAspects() { switch ... }, from
\* aspect i on.  An advice is modelled by whether it returns an error.
RECURSIVE ExecuteFrom(_, _, _)
ExecuteFrom(list, i, jp) ==
    IF i > Len(list) THEN [err |-> NoErr, events |-> NoEvents]
    ELSE IF ~Dispatches(list[i], jp) THEN ExecuteFrom(list, i + 1, jp)
    ELSE IF list[i].Fails
    THEN [err |-> PhaseName(list[i].Kind),
          events |-> <<Event("Advice", i, jp, FALSE)>>]
    ELSE LET rest == ExecuteFrom(list, i + 1, jp)
         IN [err |-> rest.err, events |-> <<Event("Advice", i, jp, TRUE)>> \o rest.events]

ExecuteAspects(c, jp) ==
    LET r == ExecuteFrom(aspects[c], 1, jp) IN
    /\ Alive
    /\ last' = [NoCall EXCEPT !.op = "ExecuteAspects", !.c = c, !.jp = jp,
                              !.err = r.err, !.events = r.events]
    /\ UNCHANGED <<services, parent, postConstructHooks, preDestroyHooks, active,
                   aspects>>
    /\ UNCHANGED threadvars

\* aop.AspectManager.ExecuteAspects: for _, aspect := range am.aspects, every
\* aspect's Advice is called whatever its Kind, and its error is returned as
\* it is
RECURSIVE ManagerExecuteFrom(_, _, _)
ManagerExecuteFrom(list, i, jp) ==
    IF i > Len(list) THEN [err |-> NoErr, events |-> NoEvents]
    ELSE IF list[i].Fails
    THEN [err |-> "advice failed", events |-> <<Event("Advice", i, jp, FALSE)>>]
    ELSE LET rest == ManagerExecuteFrom(list, i + 1, jp)
         IN [err |-> rest.err, events |-> <<Event("Advice", i, jp, TRUE)>> \o rest.events]

\* ExecuteAspects called on the container's aspect manager itself
ManagerExecuteAspects(c, jp) ==
    LET r == ManagerExecuteFrom(aspects[c], 1, jp) IN
    /\ Alive
    /\ last' = [NoCall EXCEPT !.op = "AspectManager.ExecuteAspects", !.c = c,
                              !.jp = jp, !.err = r.err, !.events = r.events]
    /\ UNCHANGED <<services, parent, postConstructHooks, preDestroyHooks, active,
                   aspects>>
    /\ UNCHANGED threadvars

\* ------------------------------------------------------------ InjectStruct
NoTag == "-"

Field(di, required, settable, type) ==
    [di |-> di, required |-> required, settable |-> settable, type |-> type]

\* a required tag of any value makes the field required
IsRequiredAnyValue(field) == field.required # "absent"

\* required, ok := field.Tag.Lookup("required"); ok && required == "true"
IsRequired(field) == field.required = "true"

\* a loop that tries to inject the fields it cannot set as well
SkippedUntaggedOnly(field) == field.di = NoTag

\* the two `continue`s at the head of the loop: no di tag, or !CanSet()
Skipped(field) == field.di = NoTag \/ ~field.settable

\* the loop over the struct's fields, from field i on
RECURSIVE InjectFields(_, _, _, _, _)
InjectFields(c, shape, i, fields, failing) ==
    IF i > Len(shape) THEN [err |-> NoErr, events |-> NoEvents, fields |-> fields]
    ELSE IF Skipped(shape[i])
    THEN InjectFields(c, shape, i + 1, fields, failing)
    ELSE LET r == ResolveOutcome(c, shape[i].di, failing) IN
         IF r.err = "stack overflow"
         THEN [err |-> r.err, events |-> r.events, fields |-> fields]
         ELSE IF r.err # NoErr
         THEN IF IsRequired(shape[i])
              THEN [err |-> "required service not found", events |-> r.events,
                    fields |-> fields]
              ELSE LET rest == InjectFields(c, shape, i + 1, fields, failing)
                   IN [rest EXCEPT !.events = r.events \o @]
         ELSE IF ~AssignableTo(TypeOf(r.val), shape[i].type)
         THEN [err |-> "not assignable to field type", events |-> r.events,
               fields |-> fields]
         ELSE LET rest == InjectFields(c, shape, i + 1,
                                       [fields EXCEPT ![i] = r.val], failing)
              IN [rest EXCEPT !.events = r.events \o @]

\* InjectStruct that runs the target's lifecycle whatever the fields did
InjectOutcomeAlwaysLifecycle(c, kind, target, shape, before, failing) ==
    IF kind # "ptr"
    THEN [err |-> "target must be a pointer", events |-> NoEvents, fields |-> before]
    ELSE IF target \notin Targets
    THEN [err |-> "target must be a pointer to struct", events |-> NoEvents,
          fields |-> before]
    ELSE LET f == InjectFields(c, shape, 1, before, failing)
             post == PostConstructOf(postConstructHooks[c], target, failing)
         IN [err |-> IF f.err # NoErr THEN f.err ELSE post.err,
             events |-> f.events \o post.events, fields |-> f.fields]

\* InjectStruct that runs the target's lifecycle before it injects the fields
InjectOutcomeLifecycleFirst(c, kind, target, shape, before, failing) ==
    IF kind # "ptr"
    THEN [err |-> "target must be a pointer", events |-> NoEvents, fields |-> before]
    ELSE IF target \notin Targets
    THEN [err |-> "target must be a pointer to struct", events |-> NoEvents,
          fields |-> before]
    ELSE LET post == PostConstructOf(postConstructHooks[c], target, failing) IN
         IF post.err # NoErr
         THEN [err |-> post.err, events |-> post.events, fields |-> before]
         ELSE LET f == InjectFields(c, shape, 1, before, failing)
              IN [err |-> f.err, events |-> post.events \o f.events,
                  fields |-> f.fields]

\* InjectStruct that goes to the fields whatever it is handed
InjectOutcomeUnchecked(c, kind, target, shape, before, failing) ==
    LET f == InjectFields(c, shape, 1, before, failing) IN
    IF f.err # NoErr THEN f
    ELSE LET post == PostConstructOf(postConstructHooks[c], target, failing)
         IN [err |-> post.err, events |-> f.events \o post.events, fields |-> f.fields]

InjectOutcome(c, kind, target, shape, before, failing) ==
    IF kind # "ptr"
    THEN [err |-> "target must be a pointer", events |-> NoEvents, fields |-> before]
    ELSE IF target \notin Targets
    THEN [err |-> "target must be a pointer to struct", events |-> NoEvents,
          fields |-> before]
    ELSE LET f == InjectFields(c, shape, 1, before, failing) IN
         IF f.err # NoErr THEN f
         ELSE LET post == PostConstructOf(postConstructHooks[c], target, failing)
              IN [err |-> post.err, events |-> f.events \o post.events,
                  fields |-> f.fields]

InjectStruct(c, kind, target, shape, before, failing) ==
    LET r == InjectOutcome(c, kind, target, shape, before, failing) IN
    /\ Alive
    /\ last' = [NoCall EXCEPT !.op = "InjectStruct", !.c = c, !.kind = kind,
                              !.target = target, !.shape = shape, !.before = before,
                              !.after = r.fields, !.err = r.err, !.events = r.events,
                              !.failing = failing]
    /\ UNCHANGED <<services, parent, postConstructHooks, preDestroyHooks, active,
                   aspects>>
    /\ UNCHANGED threadvars

\* ------------------------------------------------------ sync.RWMutex
\* Lock announces the writer, which keeps new readers out, and then waits for
\* the lock to be free of readers and of another writer.
\* a Lock that excludes nobody
CanLockAlways(m) == TRUE

CanLock(m) == m.writer = NoThread /\ m.readers = {}

\* an RLock that does not wait for the writer
CanRLockAlways(m) == TRUE

CanRLock(m) == m.writer = NoThread /\ m.pending = {}

\* threads inside a section that reads or writes c.services
InSection(c) ==
    {t \in Threads : call[t].c = c /\ pc[t] \in {"check", "postconstruct", "insert", "lookup"}}

Goto(t, label) == [pc EXCEPT ![t] = label]
Return(t, r) == [ret EXCEPT ![t] = r]

\* ------------------------------------------- Register, statement by statement
\* c.mu.Lock()
RegisterLock(t) ==
    /\ pc[t] = "start" /\ call[t].op = "Register"
    /\ mu' = [mu EXCEPT ![call[t].c].pending = @ \cup {t}]
    /\ pc' = Goto(t, "lock")
    /\ UNCHANGED <<services, parent, postConstructHooks, preDestroyHooks, active,
                   aspects, last, call, ret, locals>>

RegisterLocked(t) ==
    /\ pc[t] = "lock"
    /\ CanLock(mu[call[t].c])
    /\ mu' = [mu EXCEPT ![call[t].c].pending = @ \ {t}, ![call[t].c].writer = t]
    /\ pc' = Goto(t, "check")
    /\ UNCHANGED <<services, parent, postConstructHooks, preDestroyHooks, active,
                   aspects, last, call, ret, locals>>

\* Register that inserts without running the lifecycle
AfterCheckInsert(service, scope) == "insert"

\* where Register goes after its nil and duplicate checks have passed
AfterCheck(service, scope) ==
    IF scope = Singleton /\ LifecycleAware(service) THEN "postconstruct" ELSE "insert"

\* if service == nil ...; if _, exists := c.services[qualifier]; exists ...
RegisterCheck(t) ==
    LET k == call[t] IN
    /\ pc[t] = "check"
    /\ IF k.svc = Nil
       THEN /\ ret' = Return(t, [NoReturn EXCEPT !.err = "cannot register nil service"])
            /\ pc' = Goto(t, "unlock")
       ELSE IF services[k.c][k.q] # NoDesc
       THEN /\ ret' = Return(t, [NoReturn EXCEPT !.err = "service already registered"])
            /\ pc' = Goto(t, "unlock")
       ELSE /\ ret' = ret
            /\ pc' = Goto(t, AfterCheck(k.svc, k.scope))
    /\ UNCHANGED <<services, parent, postConstructHooks, preDestroyHooks, active,
                   aspects, last, mu, call, locals>>

\* the hooks and the service's PostConstruct
RegisterPostConstruct(t) ==
    LET k == call[t]
        r == PostConstructOf(postConstructHooks[k.c], k.svc, {}) IN
    /\ pc[t] = "postconstruct"
    /\ ret' = Return(t, [NoReturn EXCEPT !.err = r.err, !.events = r.events])
    /\ pc' = Goto(t, IF r.err = NoErr THEN "insert" ELSE "unlock")
    /\ UNCHANGED <<services, parent, postConstructHooks, preDestroyHooks, active,
                   aspects, last, mu, call, locals>>

\* c.services[qualifier] = scopedService.  A map write that overlaps another
\* access of the map is a data race: the entry may be lost.
RegisterInsert(t) ==
    LET k == call[t] IN
    /\ pc[t] = "insert"
    /\ \E lost \in (IF InSection(k.c) = {t} THEN {FALSE} ELSE BOOLEAN) :
          services' = IF lost THEN services
                      ELSE InsertService(k.c, k.q, NewScopedService(k.svc, k.scope))
    /\ pc' = Goto(t, "unlock")
    /\ UNCHANGED <<parent, postConstructHooks, preDestroyHooks, active,
                   aspects, last, mu, call, ret, locals>>

\* defer c.mu.Unlock()
RegisterUnlock(t) ==
    /\ pc[t] = "unlock"
    /\ mu' = [mu EXCEPT ![call[t].c].writer = NoThread]
    /\ pc' = Goto(t, "done")
    /\ UNCHANGED <<services, parent, postConstructHooks, preDestroyHooks, active,
                   aspects, last, call, ret, locals>>

\* -------------------------------------------- Resolve, statement by statement
\* c.mu.RLock()
ResolveRLock(t) ==
    /\ pc[t] = "start" /\ call[t].op = "Resolve"
    /\ CanRLock(mu[call[t].c])
    /\ mu' = [mu EXCEPT ![call[t].c].readers = @ \cup {t}]
    /\ pc' = Goto(t, "lookup")
    /\ UNCHANGED <<services, parent, postConstructHooks, preDestroyHooks, active,
                   aspects, last, call, ret, locals>>

\* the lookup and the switch on the scope (no container of SpecThreads has a parent)
ResolveLookup(t) ==
    /\ pc[t] = "lookup"
    /\ ret' = Return(t, ResolveOutcome(call[t].c, call[t].q, {}))
    /\ pc' = Goto(t, "runlock")
    /\ UNCHANGED <<services, parent, postConstructHooks, preDestroyHooks, active,
                   aspects, last, mu, call, locals>>

\* defer c.mu.RUnlock()
ResolveRUnlock(t) ==
    /\ pc[t] = "runlock"
    /\ mu' = [mu EXCEPT ![call[t].c].readers = @ \ {t}]
    /\ pc' = Goto(t, "done")
    /\ UNCHANGED <<services, parent, postConstructHooks, preDestroyHooks, active,
                   aspects, last, call, ret, locals>>

\* ----------------------------- the other locked calls, statement by statement
\* a call of a thread: the method, the container, and the arguments
Call(op, c, q, svc, scope, arg) ==
    [op |-> op, c |-> c, q |-> q, svc |-> svc, scope |-> scope, arg |-> arg]

\* one mutex for all containers
SharedMutex(c) == 1

\* c.mu: every container has its own sync.RWMutex
MutexOf(c) == c

\* the methods that hold c.mu.Lock() from their first statement to their return
WriterOps == {"SetParent", "SetActiveProfiles", "AddAspect", "Cleanup"}

\* c.mu.Lock()
WriterLock(t) ==
    /\ pc[t] = "start" /\ call[t].op \in WriterOps
    /\ mu' = [mu EXCEPT ![MutexOf(call[t].c)].pending = @ \cup {t}]
    /\ pc' = Goto(t, "wlock")
    /\ UNCHANGED <<services, parent, postConstructHooks, preDestroyHooks, active,
                   aspects, last, call, ret, locals>>

WriterLocked(t) ==
    /\ pc[t] = "wlock"
    /\ CanLock(mu[MutexOf(call[t].c)])
    /\ mu' = [mu EXCEPT ![MutexOf(call[t].c)].pending = @ \ {t},
                        ![MutexOf(call[t].c)].writer = t]
    /\ pc' = Goto(t, "body")
    /\ UNCHANGED <<services, parent, postConstructHooks, preDestroyHooks, active,
                   aspects, last, call, ret, locals>>

\* c.parent = parent
SetParentBody(t) ==
    /\ pc[t] = "body" /\ call[t].op = "SetParent"
    /\ parent' = [parent EXCEPT ![call[t].c] = call[t].arg]
    /\ pc' = Goto(t, "wunlock")
    /\ UNCHANGED <<services, postConstructHooks, preDestroyHooks, active,
                   aspects, last, mu, call, ret, locals>>

\* c.profileManager.active = profiles
SetActiveProfilesBody(t) ==
    /\ pc[t] = "body" /\ call[t].op = "SetActiveProfiles"
    /\ active' = [active EXCEPT ![call[t].c] = ReplacedProfiles(@, call[t].arg)]
    /\ pc' = Goto(t, "wunlock")
    /\ UNCHANGED <<services, parent, postConstructHooks, preDestroyHooks,
                   aspects, last, mu, call, ret, locals>>

\* c.aspectManager.AddAspect(aspect)
AddAspectBody(t) ==
    /\ pc[t] = "body" /\ call[t].op = "AddAspect"
    /\ aspects' = [aspects EXCEPT ![call[t].c] = Append(@, call[t].arg)]
    /\ pc' = Goto(t, "wunlock")
    /\ UNCHANGED <<services, parent, postConstructHooks, preDestroyHooks, active,
                   last, mu, call, ret, locals>>

\* the loop of Cleanup over c.services, in one of the orders of the map
CleanupBody(t) ==
    /\ pc[t] = "body" /\ call[t].op = "Cleanup"
    /\ \E order \in Orders(Qualifiers) :
          LET r == CleanupFrom(call[t].c, order, 1, {})
          IN ret' = Return(t, [NoReturn EXCEPT !.err = r.err, !.events = r.events])
    /\ pc' = Goto(t, "wunlock")
    /\ UNCHANGED <<services, parent, postConstructHooks, preDestroyHooks, active,
                   aspects, last, mu, call, locals>>

\* defer c.mu.Unlock()
WriterUnlock(t) ==
    /\ pc[t] = "wunlock"
    /\ mu' = [mu EXCEPT ![MutexOf(call[t].c)].writer = NoThread]
    /\ pc' = Goto(t, "done")
    /\ UNCHANGED <<services, parent, postConstructHooks, preDestroyHooks, active,
                   aspects, last, call, ret, locals>>

\* ------------------------ Resolve through the parent chain, frame by frame
\* the container of the innermost Resolve frame of thread t
Top(t) == locals[t].stack[Len(locals[t].stack)]

\* Resolve is called on the container of the call
FrameCall(t) ==
    /\ pc[t] = "start" /\ call[t].op = "Resolve"
    /\ locals' = [locals EXCEPT ![t].stack = <<call[t].c>>]
    /\ pc' = Goto(t, "frlock")
    /\ UNCHANGED <<services, parent, postConstructHooks, preDestroyHooks, active,
                   aspects, last, mu, call, ret>>

\* c.mu.RLock() of the innermost frame
FrameRLock(t) ==
    /\ pc[t] = "frlock"
    /\ CanRLock(mu[MutexOf(Top(t))])
    /\ mu' = [mu EXCEPT ![MutexOf(Top(t))].readers = @ \cup {t}]
    /\ pc' = Goto(t, "flookup")
    /\ UNCHANGED <<services, parent, postConstructHooks, preDestroyHooks, active,
                   aspects, last, call, ret, locals>>

\* the lookup: without a descriptor and with a parent, c.parent.Resolve(qualifier)
\* is called while this frame keeps its read lock; otherwise the frame has
\* its result
FrameLookup(t) ==
    LET c == Top(t)
        d == services[c][call[t].q] IN
    /\ pc[t] = "flookup"
    /\ IF d = NoDesc /\ parent[c] # NoContainer
       THEN /\ locals' = [locals EXCEPT ![t].stack = Append(@, parent[c])]
            /\ pc' = Goto(t, "frlock")
            /\ ret' = ret
       ELSE /\ ret' = Return(t, IF d = NoDesc
                                THEN [NoReturn EXCEPT !.err = "no service found"]
                                ELSE ResolveLocal(c, d, {}))
            /\ pc' = Goto(t, "frunlock")
            /\ locals' = locals
    /\ UNCHANGED <<services, parent, postConstructHooks, preDestroyHooks, active,
                   aspects, last, mu, call>>

\* defer c.mu.RUnlock() of the innermost frame, which returns to its caller
FrameRUnlock(t) ==
    /\ pc[t] = "frunlock"
    /\ mu' = [mu EXCEPT ![MutexOf(Top(t))].readers = @ \ {t}]
    /\ locals' = [locals EXCEPT ![t].stack = SubSeq(@, 1, Len(@) - 1)]
    /\ pc' = Goto(t, IF Len(locals[t].stack) = 1 THEN "done" ELSE "frunlock")
    /\ UNCHANGED <<services, parent, postConstructHooks, preDestroyHooks, active,
                   aspects, last, call, ret>>

\* ------------------------------------------- hooks added beside other calls
\* lm.postConstructHooks = append(lm.postConstructHooks, hook), reached through
\* GetLifecycleManager() and under no lock: the read of the slice and the write
\* of the longer one are two steps
HookAppendRead(t) ==
    /\ pc[t] = "start" /\ call[t].op = "AddPostConstructHook"
    /\ locals' = [locals EXCEPT ![t].slice = postConstructHooks[call[t].c]]
    /\ pc' = Goto(t, "append")
    /\ UNCHANGED <<services, parent, postConstructHooks, preDestroyHooks, active,
                   aspects, last, mu, call, ret>>

HookAppendWrite(t) ==
    /\ pc[t] = "append"
    /\ postConstructHooks' = [postConstructHooks EXCEPT
                                 ![call[t].c] = AppendedHook(locals[t].slice, call[t].arg)]
    /\ pc' = Goto(t, "done")
    /\ UNCHANGED <<services, parent, preDestroyHooks, active,
                   aspects, last, mu, call, ret, locals>>

\* the threads that have read the hook slice of c and not yet written it
Appending(c) == {u \in Threads : pc[u] = "append" /\ call[u].c = c}

\* what a torn read of the slice header makes of the element past the old
\* length: not a hook
Garbage == [Name |-> "garbage", Priority |-> -1, FailOn |-> {}]

\* the values an unsynchronized read of the hook slice can give: the slice
\* itself, or, while another thread is appending (a data race), a header
\* whose length is the new one and whose last element is not the new hook
SliceReads(c) ==
    {postConstructHooks[c]}
    \cup {Append(postConstructHooks[c], Garbage) : u \in Appending(c)}

\* InjectStruct of a target with the lifecycle capability and no tagged
\* field; the method takes no lock.
\* for _, hook := range c.lifecycleManager.postConstructHooks: the range
\* expression is evaluated once
InjectRange(t) ==
    /\ pc[t] = "start" /\ call[t].op = "InjectStruct"
    /\ \E sl \in SliceReads(call[t].c) : locals' = [locals EXCEPT ![t].slice = sl]
    /\ pc' = Goto(t, "hooks")
    /\ UNCHANGED <<services, parent, postConstructHooks, preDestroyHooks, active,
                   aspects, last, mu, call, ret>>

\* the handlers of the slice that was read, then the target's PostConstruct;
\* calling what is not a hook panics
InjectLifecycle(t) ==
    LET sl == locals[t].slice
        r == PostConstructOf(sl, call[t].arg, {}) IN
    /\ pc[t] = "hooks"
    /\ ret' = Return(t, IF \E i \in 1..Len(sl) : sl[i] = Garbage
                        THEN [NoReturn EXCEPT !.err = "panic"]
                        ELSE [NoReturn EXCEPT !.err = r.err, !.events = r.events])
    /\ pc' = Goto(t, "done")
    /\ UNCHANGED <<services, parent, postConstructHooks, preDestroyHooks, active,
                   aspects, last, mu, call, locals>>

\* --------------------------------------- ExecuteAspects, statement by statement
\* c.mu.RLock()
ExecuteRLock(t) ==
    /\ pc[t] = "start" /\ call[t].op = "ExecuteAspects"
    /\ CanRLock(mu[MutexOf(call[t].c)])
    /\ mu' = [mu EXCEPT ![MutexOf(call[t].c)].readers = @ \cup {t}]
    /\ pc' = Goto(t, "range")
    /\ UNCHANGED <<services, parent, postConstructHooks, preDestroyHooks, active,
                   aspects, last, call, ret, locals>>

\* range c.aspectManager.GetAspects(): the slice is read once
ExecuteRange(t) ==
    /\ pc[t] = "range"
    /\ locals' = [locals EXCEPT ![t].slice = aspects[call[t].c]]
    /\ pc' = Goto(t, "advice")
    /\ UNCHANGED <<services, parent, postConstructHooks, preDestroyHooks, active,
                   aspects, last, mu, call, ret>>

\* the advice of the slice that was read
ExecuteAdvice(t) ==
    LET r == ExecuteFrom(locals[t].slice, 1, call[t].arg) IN
    /\ pc[t] = "advice"
    /\ ret' = Return(t, [NoReturn EXCEPT !.err = r.err, !.events = r.events])
    /\ pc' = Goto(t, "xrunlock")
    /\ UNCHANGED <<services, parent, postConstructHooks, preDestroyHooks, active,
                   aspects, last, mu, call, locals>>

\* defer c.mu.RUnlock()
ExecuteRUnlock(t) ==
    /\ pc[t] = "xrunlock"
    /\ mu' = [mu EXCEPT ![MutexOf(call[t].c)].readers = @ \ {t}]
    /\ pc' = Goto(t, "done")
    /\ UNCHANGED <<services, parent, postConstructHooks, preDestroyHooks, active,
                   aspects, last, call, ret, locals>>

\* ----------------------------- InjectStruct's field loop, Resolve by Resolve
\* InjectStruct takes no lock itself; call[t].svc is the target, call[t].arg
\* its fields, and locals[t].slice the values of the fields the loop has
\* passed (Nil: left as it was).
\* service, err := c.Resolve(qualifier), entered: c.mu.RLock()
InjectFieldRLock(t) ==
    /\ pc[t] = "start" /\ call[t].op = "InjectStruct"
    /\ ~Skipped(call[t].arg[Len(locals[t].slice) + 1])
    /\ CanRLock(mu[call[t].c])
    /\ mu' = [mu EXCEPT ![call[t].c].readers = @ \cup {t}]
    /\ pc' = Goto(t, "field")
    /\ UNCHANGED <<services, parent, postConstructHooks, preDestroyHooks, active,
                   aspects, last, call, ret, locals>>

\* the lookup of that Resolve, and what the loop does with its result
InjectFieldResolve(t) ==
    LET field == call[t].arg[Len(locals[t].slice) + 1]
        r == ResolveOutcome(call[t].c, field.di, {}) IN
    /\ pc[t] = "field"
    /\ IF r.err # NoErr
       THEN /\ locals' = [locals EXCEPT ![t].slice = Append(@, Nil)]
            /\ ret' = Return(t, [NoReturn EXCEPT !.err =
                          IF IsRequired(field) THEN "required service not found"
                          ELSE NoErr])
       ELSE IF ~AssignableTo(TypeOf(r.val), field.type)
       THEN /\ locals' = [locals EXCEPT ![t].slice = Append(@, Nil)]
            /\ ret' = Return(t, [NoReturn EXCEPT !.err = "not assignable to field type"])
       ELSE /\ locals' = [locals EXCEPT ![t].slice = Append(@, r.val)]
            /\ ret' = Return(t, NoReturn)
    /\ pc' = Goto(t, "fieldunlock")
    /\ UNCHANGED <<services, parent, postConstructHooks, preDestroyHooks, active,
                   aspects, last, mu, call>>

\* that Resolve's deferred c.mu.RUnlock(); then the next field, or the return
\* (the target of these calls has no PostConstruct)
InjectFieldRUnlock(t) ==
    /\ pc[t] = "fieldunlock"
    /\ mu' = [mu EXCEPT ![call[t].c].readers = @ \ {t}]
    /\ pc' = Goto(t, IF ret[t].err = NoErr /\ Len(locals[t].slice) < Len(call[t].arg)
                     THEN "start" ELSE "done")
    /\ UNCHANGED <<services, parent, postConstructHooks, preDestroyHooks, active,
                   aspects, last, call, ret, locals>>

\* the caller's next statement: a second Register after the first returned
ThenRegister(t) ==
    /\ pc[t] = "done" /\ call[t].op = "Register"
    /\ call[t].arg # <<>>
    /\ call' = [call EXCEPT ![t] = call[t].arg[1]]
    /\ pc' = Goto(t, "start")
    /\ UNCHANGED <<services, parent, postConstructHooks, preDestroyHooks, active,
                   aspects, last, mu, ret, locals>>

\* ----------------------------------- handlers that call the container back
\* A hook handler, a PostConstruct or PreDestroy method, or an advice is user
\* code: call[t].arg.calls holds the call it makes on a container, on the
\* thread and inside the locked section of the call that invokes it.
\* whether the call of thread t, where it stands, invokes a handler
HandlerRuns(t) ==
    LET k == call[t] IN
    \/ pc[t] = "postconstruct" /\ k.op = "Register"
    \/ /\ pc[t] = "body" /\ k.op = "Cleanup"
       /\ \E q \in Qualifiers :
             /\ services[k.c][q] # NoDesc
             /\ services[k.c][q].Scope = Singleton
             /\ LifecycleAware(services[k.c][q].Instance)
    \/ /\ pc[t] = "advice" /\ k.op = "ExecuteAspects"
       /\ \E i \in 1..Len(locals[t].slice) : Dispatches(locals[t].slice[i], k.arg)

\* the handler makes its call: the frame of the call that invoked it stays
\* on the thread's stack, with the lock it holds
HandlerCalls(t) ==
    /\ locals[t].stack = <<>>
    /\ HandlerRuns(t)
    /\ call[t].arg.calls # <<>>
    /\ locals' = [locals EXCEPT ![t].stack =
                     <<[call |-> [call[t] EXCEPT !.arg.calls = <<>>], pc |-> pc[t]]>>]
    /\ call' = [call EXCEPT ![t] = call[t].arg.calls[1]]
    /\ pc' = Goto(t, "start")
    /\ UNCHANGED <<services, parent, postConstructHooks, preDestroyHooks, active,
                   aspects, last, mu, ret>>

\* the handler's call has returned: the call that invoked it goes on
HandlerReturns(t) ==
    /\ pc[t] = "done"
    /\ locals[t].stack # <<>>
    /\ call' = [call EXCEPT ![t] = locals[t].stack[1].call]
    /\ pc' = Goto(t, locals[t].stack[1].pc)
    /\ locals' = [locals EXCEPT ![t].stack = <<>>]
    /\ UNCHANGED <<services, parent, postConstructHooks, preDestroyHooks, active,
                   aspects, last, mu, ret>>

\* the call of thread t has no handler call left to make
HandlersDone(t) ==
    IF locals[t].stack # <<>> THEN TRUE ELSE call[t].arg.calls = <<>>

\* ------------------------------------------------- inputs of the calls
Aspects == {[Kind |-> Before, PointCut |-> "*", Fails |-> FALSE]}
ProfileLists == {<<>>, <<"dev">>}
\* LifecycleHook.Priority of the hooks below: "veto" has the lower number
HookPriority(name) == IF name = "veto" THEN 1 ELSE 2

\* a hook whose handler accepts every object, and one that returns an error
\* for the objects of S
HooksOn(S) ==
    {[Name |-> "audit", Priority |-> HookPriority("audit"), FailOn |-> {}],
     [Name |-> "veto", Priority |-> HookPriority("veto"), FailOn |-> S]}

EmptyFields(shape) == [i \in 1..Len(shape) |-> Nil]
OldFields(shape) == [i \in 1..Len(shape) |-> OldValue]

\* the struct of container_test.go, without its untagged and private fields
TestStruct ==
    <<Field("a", "absent", TRUE, "TestService"), Field("b", "false", TRUE, "TestService")>>

\* ------------------------------------------- Spec: one container's registry
\* Every call of the API on container 1; containers 2 and 3 stay empty and
\* serve as possible parents.  The caller adds one aspect and one hook at most.
Main == 1

Next ==
    \/ \E q \in {"a", "b"}, s \in {"v1", "v3", Nil}, sc \in Scopes, f \in {{}, {"v1"}} :
          Register(Main, q, s, sc, f)
    \/ \E q \in {"a", "b"}, f \in {{}, {"v1"}} : Resolve(Main, q, f)
    \/ \E p \in {NoContainer, Main, 2} : SetParent(Main, p)
    \/ \E o \in Orders({"a", "b"}) : Cleanup(Main, o, {})
    \/ \E ps \in ProfileLists : SetActiveProfiles(Main, ps)
    \/ \E a \in Aspects : aspects[Main] = <<>> /\ AddAspect(Main, a)
    \/ \E h \in HooksOn({"v1"}) :
          postConstructHooks[Main] = <<>> /\ AddPostConstructHook(Main, h)
    \/ \E t \in Targets :
          InjectStruct(Main, "ptr", t, TestStruct, EmptyFields(TestStruct), {})

Spec == Init /\ [][Next]_vars

\* ------------------------------------------- SpecChain: a parent hierarchy
NextChain ==
    \/ \E c \in Containers, s \in {"v1", "v2"}, sc \in {Singleton, Prototype} :
          Register(c, "a", s, sc, {})
    \/ \E c \in Containers : Resolve(c, "a", {})
    \/ \E c \in Containers, p \in Containers \cup {NoContainer} : SetParent(c, p)

SpecChain == Init /\ [][NextChain]_vars

\* --------------------------------------------- SpecInject: field injection
InjectFieldKinds ==
    { Field("a", "true", TRUE, "TestService"),
      Field("a", "absent", TRUE, "TestService"),
      Field("b", "TRUE", TRUE, "TestService"),
      Field("b", "true", TRUE, "*plain"),
      Field(NoTag, "true", TRUE, "TestService") }

InjectShapes == [1..NumFields -> InjectFieldKinds]

NextInject ==
    \/ \E s \in {"v1", "v3"} : Register(Main, "a", s, Singleton, {})
    \/ \E in \in {<<"v3", Singleton>>, <<"v2", Prototype>>} :
          Register(Main, "b", in[1], in[2], {})
    \/ \E sh \in InjectShapes : InjectStruct(Main, "ptr", LifecycleTarget, sh, EmptyFields(sh), {})
    \/ \E sh \in InjectShapes : InjectStruct(Main, "ptr", PlainTarget, sh, OldFields(sh), {})
    \/ \E k \in {"nil", "struct"} :
          InjectStruct(Main, k, PlainTarget, TestStruct, EmptyFields(TestStruct), {})
    \/ InjectStruct(Main, "ptr", "string", <<>>, <<>>, {})
    \/ \E h \in HooksOn({"v2", LifecycleTarget}) :
          postConstructHooks[Main] = <<>> /\ AddPostConstructHook(Main, h)

SpecInject == Init /\ [][NextInject]_vars

\* ------------------------------------------------- SpecCleanup: teardown
NextCleanup ==
    \/ \E q \in Qualifiers, s \in Values, sc \in {Singleton, Prototype} :
          Register(Main, q, s, sc, {})
    \/ \E o \in Orders(Qualifiers), f \in SUBSET {"v1", "v2"} : Cleanup(Main, o, f)
    \/ \E h \in HooksOn({"v2"}) :
          preDestroyHooks[Main] = <<>> /\ AddPreDestroyHook(Main, h)

SpecCleanup == Init /\ [][NextCleanup]_vars
\* ------------------------------- SpecThreads: concurrent callers of container 1
\* Thread t registers its own object, or resolves a qualifier.
OwnObject(t) == IF t = 1 THEN "v1" ELSE IF t = 2 THEN "v2" ELSE "v3"

ThreadCalls(t) ==
    {[op |-> "Register", c |-> Main, q |-> q, svc |-> OwnObject(t), scope |-> Singleton] :
        q \in Qualifiers}
    \cup {[op |-> "Resolve", c |-> Main, q |-> q, svc |-> Nil, scope |-> -1] :
        q \in {"a", "b"}}

InitThreads ==
    /\ InitContainers
    /\ call \in {k \in [Threads -> UNION {ThreadCalls(t) : t \in Threads}] :
                    \A t \in Threads : k[t] \in ThreadCalls(t)}
    /\ pc = [t \in Threads |-> "start"]

NextThreads ==
    \E t \in Threads :
        \/ RegisterLock(t)
        \/ RegisterLocked(t)
        \/ RegisterCheck(t)
        \/ RegisterPostConstruct(t)
        \/ RegisterInsert(t)
        \/ RegisterUnlock(t)
        \/ ResolveRLock(t)
        \/ ResolveLookup(t)
        \/ ResolveRUnlock(t)

SpecThreads == InitThreads /\ [][NextThreads]_vars
\* --------------------------------------------- SpecAspects: advice dispatch
JoinPoints == {[Error |-> Nil], [Error |-> "boom"]}

AnyAspects ==
    {[Kind |-> k, PointCut |-> "*", Fails |-> f] :
        k \in AspectKinds \cup {UnknownKind}, f \in BOOLEAN}

NextAspects ==
    \/ \E a \in AnyAspects : AddAspect(Main, a)
    \/ \E jp \in JoinPoints : ExecuteAspects(Main, jp)
    \/ \E jp \in JoinPoints : ManagerExecuteAspects(Main, jp)

SpecAspects == Init /\ [][NextAspects]_vars

\* ------------------------------------------ SpecProfiles: active profiles
ProfileNames == {"dev", "test", "prod"}

AnyProfileLists == UNION {[1..n -> ProfileNames] : n \in 0..MaxProfiles}

NextProfiles ==
    \/ \E c \in {Main, 2}, ps \in AnyProfileLists : SetActiveProfiles(c, ps)
    \/ \E c \in {Main, 2}, n \in ProfileNames : IsProfileActive(c, n)
    \/ \E c \in {Main, 2}, n \in ProfileNames : Matches(n, c)
    \/ \E s \in {"v1"} : Register(Main, "a", s, Singleton, {})
    \/ \E a \in Aspects : AddAspect(Main, a)

SpecProfiles == Init /\ [][NextProfiles]_vars

\* ------------------------------------- SpecSkip: fields left to the caller
\* an untagged field, two unexported fields with a di tag, and a field to inject
SkipFieldKinds ==
    { Field(NoTag, "true", TRUE, "TestService"),
      Field("c", "true", FALSE, "TestService"),
      Field("b", "absent", FALSE, "TestService"),
      Field("a", "true", TRUE, "TestService") }

SkipShapes == [1..NumFields -> SkipFieldKinds]

NextSkip ==
    \/ Register(Main, "a", "v1", Singleton, {})
    \/ Register(Main, "b", "v2", Prototype, {})
    \/ \E sh \in SkipShapes : InjectStruct(Main, "ptr", PlainTarget, sh, OldFields(sh), {})
    \/ \E sh \in SkipShapes : InjectStruct(Main, "ptr", LifecycleTarget, sh, EmptyFields(sh), {})

SpecSkip == Init /\ [][NextSkip]_vars

\* ------------------------- SpecRegister: registration and its lifecycle
\* Container 1 with up to MaxHooks post-construct hooks, and container 2 as
\* its possible parent; one qualifier.
NextRegister ==
    \/ \E s \in {"v1", "v3", Nil}, sc \in Scopes, f \in {{}, {"v1"}} :
          Register(Main, "a", s, sc, f)
    \/ \E s \in {"v2", "v3"}, sc \in {Singleton, Prototype, Session} :
          Register(2, "a", s, sc, {})
    \/ \E f \in {{}, {"v1"}} : Resolve(Main, "a", f)
    \/ \E p \in {NoContainer, Main, 2} : SetParent(Main, p)
    \/ \E h \in HooksOn({"v1"}) : AddPostConstructHook(Main, h)

SpecRegister == Init /\ [][NextRegister]_vars

\* ------------------------------ SpecHooks: the two hook lists of a container
\* Up to MaxHooks hooks in each list of container 1, a Singleton and a
\* Prototype with the lifecycle capability, an injection target and Cleanup.
NextHooks ==
    \/ \E h \in HooksOn({"v2"}) : AddPostConstructHook(Main, h)
    \/ \E h \in HooksOn({"v2"}) : AddPreDestroyHook(Main, h)
    \/ \E s \in {"v1", "v2"} : Register(Main, "a", s, Singleton, {})
    \/ Register(Main, "b", "v2", Prototype, {})
    \/ \E q \in {"a", "b"} : Resolve(Main, q, {})
    \/ InjectStruct(Main, "ptr", LifecycleTarget, TestStruct, EmptyFields(TestStruct), {})
    \/ \E o \in Orders({"a", "b"}) : Cleanup(Main, o, {})

SpecHooks == Init /\ [][NextHooks]_vars

\* ----------------------- SpecLifetime: every operation of one container
\* One qualifier, one service; every method of the API is called.
NextLifetime ==
    \/ \E s \in {"v1", Nil}, sc \in {Singleton, Prototype} : Register(Main, "a", s, sc, {})
    \/ Resolve(Main, "a", {})
    \/ \E o \in Orders({"a"}) : Cleanup(Main, o, {})
    \/ \E h \in HooksOn({"v1"}) : AddPostConstructHook(Main, h)
    \/ \E h \in HooksOn({"v1"}) : AddPreDestroyHook(Main, h)
    \/ \E a \in Aspects : AddAspect(Main, a)
    \/ \E jp \in JoinPoints : ExecuteAspects(Main, jp)
    \/ \E ps \in ProfileLists : SetActiveProfiles(Main, ps)
    \/ IsProfileActive(Main, "dev")
    \/ Matches("dev", Main)
    \/ \E p \in {NoContainer, 2} : SetParent(Main, p)
    \/ InjectStruct(Main, "ptr", LifecycleTarget, TestStruct, EmptyFields(TestStruct), {})

SpecLifetime == Init /\ [][NextLifetime]_vars

\* ------------------------- SpecTeardown: Cleanup with pre-destroy hooks
\* Two qualifiers of container 1 bound to services with and without the
\* lifecycle capability, as Singleton or Prototype, and up to MaxHooks
\* pre-destroy hooks, one of which rejects v2.
NextTeardown ==
    \/ \E q \in {"a", "b"}, s \in Values, sc \in {Singleton, Prototype} :
          Register(Main, q, s, sc, {})
    \/ \E q \in {"a", "b"} : Resolve(Main, q, {})
    \/ \E h \in HooksOn({"v2"}) : AddPreDestroyHook(Main, h)
    \/ \E o \in Orders({"a", "b"}), f \in SUBSET {"v1"} : Cleanup(Main, o, f)
    \/ \E o \in Orders({"a", "b"}), f \in SUBSET {"v1"} : CleanupAgain(Main, o, f)

SpecTeardown == Init /\ [][NextTeardown]_vars

\* --------------------------- SpecTarget: the lifecycle of an injected target
\* Targets with a required field and a field served by a Prototype, in a
\* container with up to MaxHooks post-construct hooks.
TargetFieldKinds ==
    { Field("a", "true", TRUE, "TestService"),
      Field("b", "absent", TRUE, "TestService") }

TargetShapes == [1..NumFields -> TargetFieldKinds]

TargetHooks ==
    HooksOn({LifecycleTarget})
    \cup {[Name |-> "log", Priority |-> HookPriority("log"), FailOn |-> {}]}

NextTarget ==
    \/ \E s \in {"v1", "v3"} : Register(Main, "a", s, Singleton, {})
    \/ Register(Main, "b", "v2", Prototype, {})
    \/ \E h \in TargetHooks : AddPostConstructHook(Main, h)
    \/ \E t \in Targets, sh \in TargetShapes, f \in {{}, {LifecycleTarget}} :
          InjectStruct(Main, "ptr", t, sh, EmptyFields(sh), f)

SpecTarget == Init /\ [][NextTarget]_vars

\* ----------------- SpecRace: hooks and aspects added beside calls that use them
\* Every thread makes one call on container 1: it adds a post-construct hook
\* or an aspect, injects a target that has PostConstruct, or executes the
\* aspects.
RaceCalls ==
    {Call("AddPostConstructHook", Main, "", Nil, -1, h) : h \in HooksOn({LifecycleTarget})}
    \cup {Call("InjectStruct", Main, "", Nil, -1, LifecycleTarget)}
    \cup {Call("AddAspect", Main, "", Nil, -1, a) : a \in Aspects}
    \cup {Call("ExecuteAspects", Main, "", Nil, -1, [Error |-> Nil])}

InitRace ==
    /\ InitContainers
    /\ call \in [Threads -> RaceCalls]
    /\ pc = [t \in Threads |-> "start"]

NextRace ==
    \E t \in Threads :
        \/ HookAppendRead(t)
        \/ HookAppendWrite(t)
        \/ InjectRange(t)
        \/ InjectLifecycle(t)
        \/ WriterLock(t)
        \/ WriterLocked(t)
        \/ AddAspectBody(t)
        \/ WriterUnlock(t)
        \/ ExecuteRLock(t)
        \/ ExecuteRange(t)
        \/ ExecuteAdvice(t)
        \/ ExecuteRUnlock(t)

SpecRace == InitRace /\ [][NextRace]_vars

\* ------------------- SpecHierarchy: concurrent callers of a chain of containers
\* Container 1 has parent 2, which has parent 3, ..., and the last container
\* holds qualifier "a".  Every thread makes one call on a container of the
\* chain; a SetParent gives a container a parent further up, or none, which
\* keeps the chain acyclic.
Root == NumContainers

HierarchyCalls(t) ==
    {Call("Resolve", c, "a", Nil, -1, Nil) : c \in {Main, 2}}
    \cup {Call("Register", c, "a", OwnObject(t), Singleton, Nil) : c \in {Main, 2}}
    \cup {Call("SetParent", c, "", Nil, -1, p) :
             c \in {Main, 2}, p \in {NoContainer, Root}}
    \cup {Call("SetActiveProfiles", 2, "", Nil, -1, <<"dev">>)}
    \cup {Call("AddAspect", Root, "", Nil, -1, a) : a \in Aspects}
    \cup {Call("Cleanup", c, "", Nil, -1, Nil) : c \in {2, Root}}

InitHierarchy ==
    /\ services = [c \in Containers |-> [q \in Qualifiers |->
                      IF c = Root /\ q = "a" THEN NewScopedService("v1", Singleton)
                      ELSE NoDesc]]
    /\ parent = [c \in Containers |-> IF c = Root THEN NoContainer ELSE c + 1]
    /\ postConstructHooks = [c \in Containers |-> <<>>]
    /\ preDestroyHooks = [c \in Containers |-> <<>>]
    /\ active = [c \in Containers |-> <<>>]
    /\ aspects = [c \in Containers |-> <<>>]
    /\ last = NoCall
    /\ mu = [c \in Containers |-> Unlocked]
    /\ ret = [t \in Threads |-> NoReturn]
    /\ locals = [t \in Threads |-> NoLocals]
    /\ call \in {k \in [Threads -> UNION {HierarchyCalls(t) : t \in Threads}] :
                    \A t \in Threads : k[t] \in HierarchyCalls(t)}
    /\ pc = [t \in Threads |-> "start"]

NextHierarchy ==
    \E t \in Threads :
        \/ FrameCall(t)
        \/ FrameRLock(t)
        \/ FrameLookup(t)
        \/ FrameRUnlock(t)
        \/ RegisterLock(t)
        \/ RegisterLocked(t)
        \/ RegisterCheck(t)
        \/ RegisterPostConstruct(t)
        \/ RegisterInsert(t)
        \/ RegisterUnlock(t)
        \/ WriterLock(t)
        \/ WriterLocked(t)
        \/ SetParentBody(t)
        \/ SetActiveProfilesBody(t)
        \/ AddAspectBody(t)
        \/ CleanupBody(t)
        \/ WriterUnlock(t)

\* the runtime keeps running goroutines that can take a step
SpecHierarchy == InitHierarchy /\ [][NextHierarchy]_vars /\ WF_vars(NextHierarchy)

\* ---------------- SpecOnce: a Singleton used after its registration
\* Container 1 registers a Singleton and a Prototype and has hooks; it may be
\* the parent of container 2; both resolve and inject.
NextOnce ==
    \/ \E h \in HooksOn({}) : AddPostConstructHook(Main, h)
    \/ Register(Main, "a", "v1", Singleton, {})
    \/ Register(Main, "b", "v2", Prototype, {})
    \/ \E p \in {NoContainer, Main} : SetParent(2, p)
    \/ \E c \in {Main, 2}, q \in {"a", "b"} : Resolve(c, q, {})
    \/ \E c \in {Main, 2} :
          InjectStruct(c, "ptr", LifecycleTarget, TestStruct, EmptyFields(TestStruct), {})

SpecOnce == Init /\ [][NextOnce]_vars

\* ------------- SpecFields: an injection beside the registrations it needs
\* Thread 1 injects a struct with the optional fields a and b; thread 2
\* registers a and then b; every other thread resolves a.
InitFields ==
    /\ InitContainers
    /\ call = [t \in Threads |->
                 IF t = 1 THEN Call("InjectStruct", Main, "", PlainTarget, -1, TestStruct)
                 ELSE IF t = 2
                 THEN Call("Register", Main, "a", "v1", Singleton,
                           <<Call("Register", Main, "b", "v2", Singleton, <<>>)>>)
                 ELSE Call("Resolve", Main, "a", Nil, -1, <<>>)]
    /\ pc = [t \in Threads |-> "start"]

NextFields ==
    \E t \in Threads :
        \/ InjectFieldRLock(t)
        \/ InjectFieldResolve(t)
        \/ InjectFieldRUnlock(t)
        \/ RegisterLock(t)
        \/ RegisterLocked(t)
        \/ RegisterCheck(t)
        \/ RegisterPostConstruct(t)
        \/ RegisterInsert(t)
        \/ RegisterUnlock(t)
        \/ ThenRegister(t)
        \/ ResolveRLock(t)
        \/ ResolveLookup(t)
        \/ ResolveRUnlock(t)

SpecFields == InitFields /\ [][NextFields]_vars

\* ------------------------- SpecReentrant: handlers that call a container
\* Container 1 holds the Singleton v1 under "a" and one aspect.  Every thread
\* makes one call on container 1 whose handler calls container 1 or 2.
ReentrantCalls ==
    LET Inner(k) == [Error |-> Nil, calls |-> <<k>>] IN
    {Call("Register", Main, "b", "v2", Singleton, Inner(k)) :
        k \in {Call("Resolve", c, "a", Nil, -1, Nil) : c \in {Main, 2}}
              \cup {Call("Register", c, "c", "v3", Singleton, Nil) : c \in {Main, 2}}}
    \cup {Call("Cleanup", Main, "", Nil, -1, Inner(k)) :
        k \in {Call("Resolve", c, "a", Nil, -1, Nil) : c \in {Main, 2}}}
    \cup {Call("ExecuteAspects", Main, "", Nil, -1, Inner(k)) :
        k \in {Call("AddAspect", c, "", Nil, -1, a) : c \in {Main, 2}, a \in Aspects}}

InitReentrant ==
    /\ services = [c \in Containers |-> [q \in Qualifiers |->
                      IF c = Main /\ q = "a" THEN NewScopedService("v1", Singleton)
                      ELSE NoDesc]]
    /\ parent = [c \in Containers |-> NoContainer]
    /\ postConstructHooks = [c \in Containers |-> <<>>]
    /\ preDestroyHooks = [c \in Containers |-> <<>>]
    /\ active = [c \in Containers |-> <<>>]
    /\ aspects = [c \in Containers |->
                     IF c = Main THEN <<CHOOSE a \in Aspects : TRUE>> ELSE <<>>]
    /\ last = NoCall
    /\ mu = [c \in Containers |-> Unlocked]
    /\ ret = [t \in Threads |-> NoReturn]
    /\ locals = [t \in Threads |-> NoLocals]
    /\ call \in [Threads -> ReentrantCalls]
    /\ pc = [t \in Threads |-> "start"]

NextReentrant ==
    \E t \in Threads :
        \/ HandlerCalls(t)
        \/ HandlerReturns(t)
        \/ RegisterLock(t)
        \/ RegisterLocked(t)
        \/ RegisterCheck(t)
        \/ HandlersDone(t) /\ RegisterPostConstruct(t)
        \/ RegisterInsert(t)
        \/ RegisterUnlock(t)
        \/ ResolveRLock(t)
        \/ ResolveLookup(t)
        \/ ResolveRUnlock(t)
        \/ WriterLock(t)
        \/ WriterLocked(t)
        \/ AddAspectBody(t)
        \/ HandlersDone(t) /\ CleanupBody(t)
        \/ WriterUnlock(t)
        \/ ExecuteRLock(t)
        \/ ExecuteRange(t)
        \/ HandlersDone(t) /\ ExecuteAdvice(t)
        \/ ExecuteRUnlock(t)

\* the runtime keeps running goroutines that can take a step
SpecReentrant == InitReentrant /\ [][NextReentrant]_vars /\ WF_vars(NextReentrant)

\* ===================================================================
\* Properties
\* ===================================================================
IsSingletonOf(c, q, v) ==
    services[c][q] # NoDesc /\ services[c][q].Scope = Singleton /\ services[c][q].Instance = v

\* C1: Singleton identity stability.  A successful Register(q, v, Singleton)
\* leaves q bound to v as a Singleton; no later call of any kind changes that
\* binding; and every Resolve(q) made while q is so bound returns v itself and
\* no error.
SingletonIdentityStable ==
    [][ /\ (last'.op = "Register" /\ last'.err = NoErr /\ last'.scope = Singleton)
            => /\ services'[last'.c][last'.q].Scope = Singleton
               /\ services'[last'.c][last'.q].Instance = last'.svc
        /\ \A c \in Containers, q \in Qualifiers, v \in Values :
            IsSingletonOf(c, q, v) =>
               /\ IsSingletonOf(c, q, v)'
               /\ (last'.op = "Resolve" /\ last'.c = c /\ last'.q = q)
                     => (last'.val = v /\ last'.err = NoErr) ]_vars

\* a Singleton resolved after a parent, a profile and an aspect were set and
\* the other qualifier was registered
SingletonResolvedAfterOtherCalls ==
    /\ last.op = "Resolve" /\ last.q = "a" /\ last.val = "v1" /\ last.err = NoErr
    /\ IsSingletonOf(Main, "a", "v1")
    /\ services[Main]["b"] # NoDesc
    /\ parent[Main] # NoContainer
    /\ active[Main] # <<>>
    /\ aspects[Main] # <<>>

\* C2: Qualifier uniqueness.  A Register of a qualifier that already has a
\* descriptor fails, whatever the service and the scope, and leaves every
\* container's qualifier map (the existing descriptor included) as it was.
DuplicateQualifierRejected ==
    [][ (last'.op = "Register" /\ services[last'.c][last'.q] # NoDesc)
          => (last'.err # NoErr /\ services' = services) ]_vars

DuplicateRegistrationSeen ==
    /\ last.op = "Register" /\ last.err = "service already registered"
    /\ last.svc = "v3" /\ last.scope = Prototype
    /\ IsSingletonOf(last.c, last.q, "v1")

\* C3: Prototype distinctness.  Two Resolve calls of a Prototype qualifier, one
\* right after the other, return two different instances.
PrototypeResolvesDistinct ==
    ( /\ last.op = "Resolve" /\ last.err = NoErr /\ last.prev # Nil
      /\ services[last.c][last.q].Scope = Prototype )
    => last.val # last.prev
\* the k-th container up the parent links of c (NoContainer past the root)
RECURSIVE Ancestor(_, _)
Ancestor(c, k) == IF k = 0 \/ c = NoContainer THEN c ELSE Ancestor(parent[c], k - 1)

ParentChain(c) == {Ancestor(c, k) : k \in 0..NumContainers} \ {NoContainer}

\* C4: Hierarchical fallback.  A Resolve(q) on a container without a local
\* descriptor for q and with a parent has the outcome of Resolve(q) on the
\* parent; when the nearest container up the chain that has q holds it as a
\* Singleton, the call returns that container's instance itself.
HierarchicalFallback ==
    ( /\ last.op = "Resolve"
      /\ services[last.c][last.q] = NoDesc
      /\ parent[last.c] # NoContainer )
    => /\ LET up == ResolveOutcome(parent[last.c], last.q, {})
          IN last.val = up.val /\ last.err = up.err /\ last.events = up.events
       /\ \A k \in 1..(NumContainers - 1) :
            ( /\ Ancestor(last.c, k) # NoContainer
              /\ \A j \in 0..(k - 1) : services[Ancestor(last.c, j)][last.q] = NoDesc
              /\ services[Ancestor(last.c, k)][last.q] # NoDesc
              /\ services[Ancestor(last.c, k)][last.q].Scope = Singleton )
            => ( last.val = services[Ancestor(last.c, k)][last.q].Instance
                 /\ last.err = NoErr )

\* a grandchild resolved the instance its grandparent registered
ResolvedFromGrandparent ==
    /\ last.op = "Resolve" /\ last.err = NoErr /\ last.val = "v2"
    /\ services[last.c][last.q] = NoDesc
    /\ parent[last.c] # NoContainer
    /\ services[parent[last.c]][last.q] = NoDesc
    /\ parent[parent[last.c]] \notin {NoContainer, last.c, parent[last.c]}
    /\ IsSingletonOf(parent[parent[last.c]], last.q, "v2")

\* C5: a Resolve(q) when neither the container nor any container of its
\* parent chain has a descriptor for q returns the not-found error and nil.
ResolveUnregisteredIsNotFound ==
    ( /\ last.op = "Resolve"
      /\ \A a \in ParentChain(last.c) : services[a][last.q] = NoDesc )
    => (last.err = "no service found" /\ last.val = Nil)

\* ---------------------------------------------------------- concurrent callers
RegisterThreads == {t \in Threads : call[t].op = "Register"}
ResolveThreads == {t \in Threads : call[t].op = "Resolve"}

DistinctRegistrations ==
    \A t, u \in RegisterThreads : t # u => call[t].q # call[u].q

Invocations(events, kind, obj) ==
    Cardinality({i \in 1..Len(events) : events[i].kind = kind /\ events[i].obj = obj})

PostConstructed(q, v) ==
    \E t \in RegisterThreads :
        /\ call[t].q = q /\ call[t].svc = v
        /\ Invocations(ret[t].events, "PostConstruct", v) = 1

\* C9: a Register(q, v, Singleton) that succeeded for a v with the lifecycle
\* capability has invoked v.PostConstruct exactly once, and this was done
\* before the descriptor of q was in the map: whenever q is bound to v, and
\* whenever a Resolve has returned v, that PostConstruct has already returned.
PostConstructBeforeInsert ==
    /\ \A t \in RegisterThreads :
          ( /\ pc[t] = "done" /\ ret[t].err = NoErr
            /\ call[t].scope = Singleton /\ LifecycleAware(call[t].svc) )
          => Invocations(ret[t].events, "PostConstruct", call[t].svc) = 1
    /\ \A q \in Qualifiers, v \in Values :
          (IsSingletonOf(Main, q, v) /\ LifecycleAware(v)) => PostConstructed(q, v)
    /\ \A r \in ResolveThreads :
          (ret[r].val # Nil /\ LifecycleAware(ret[r].val))
          => PostConstructed(call[r].q, ret[r].val)

\* a Resolve that ran beside the Register of its qualifier returned the service
ResolvedWhileRegistering ==
    \E r \in ResolveThreads, t \in RegisterThreads :
        /\ call[t].q = call[r].q /\ ret[r].val = call[t].svc
        /\ LifecycleAware(call[t].svc)
        /\ pc[r] = "done" /\ pc[t] = "done"

\* -------------------------------------------------------------- injection
InjectCall == last.op = "InjectStruct" /\ last.kind = "ptr" /\ last.target \in Targets

Considered(i) == last.shape[i].di # NoTag /\ last.shape[i].settable
FieldResolve(i) == ResolveOutcome(last.c, last.shape[i].di, last.failing)
Unresolved(i) == Considered(i) /\ FieldResolve(i).err # NoErr
Mismatched(i) ==
    /\ Considered(i) /\ FieldResolve(i).err = NoErr
    /\ ~AssignableTo(TypeOf(FieldResolve(i).val), last.shape[i].type)
Injectable(i) == Considered(i) /\ ~Unresolved(i) /\ ~Mismatched(i)
Aborting(i) == (Unresolved(i) /\ last.shape[i].required = "true") \/ Mismatched(i)
Reached(i) == \A j \in 1..(i - 1) : ~Aborting(j)
TargetLifecycleOk ==
    PostConstructOf(postConstructHooks[last.c], last.target, last.failing).err = NoErr

\* C7: Required versus optional injection.  At a settable tagged field whose
\* qualifier does not resolve, InjectStruct fails with the required-missing
\* error when the required tag is exactly "true"; with any other value, or
\* none, the field keeps its value, the fields after it are still injected,
\* and the call succeeds unless something else fails.
RequiredVersusOptional ==
    InjectCall =>
      \A i \in 1..Len(last.shape) :
        (Unresolved(i) /\ Reached(i)) =>
          IF last.shape[i].required = "true"
          THEN last.err = "required service not found"
          ELSE /\ last.after[i] = last.before[i]
               /\ \A j \in (i + 1)..Len(last.shape) :
                     (Reached(j) /\ Injectable(j)) => last.after[j] = FieldResolve(j).val
               /\ ((\A j \in 1..Len(last.shape) : ~Aborting(j)) /\ TargetLifecycleOk)
                     => last.err = NoErr
               /\ last.err = "required service not found"
                     => \E j \in 1..Len(last.shape) :
                           Unresolved(j) /\ last.shape[j].required = "true"

\* an unresolved field tagged required:"TRUE" was skipped and the next injected
OptionalSkippedThenInjected ==
    /\ InjectCall /\ last.err = NoErr
    /\ last.shape[1].required = "TRUE" /\ Unresolved(1)
    /\ last.after[1] = OldValue
    /\ Injectable(2) /\ last.after[2] = "v1"

\* C8: Type mismatch rejection.  At a field whose qualifier resolves to a
\* value not assignable to the field's type, InjectStruct fails with the
\* type error, required or not; that field and the later ones keep their
\* values, the fields injected before keep what was injected, and neither a
\* post-construct hook nor PostConstruct is run on the target.
TypeMismatchRejected ==
    InjectCall =>
      \A i \in 1..Len(last.shape) :
        (Mismatched(i) /\ Reached(i)) =>
          /\ last.err = "not assignable to field type"
          /\ \A j \in i..Len(last.shape) : last.after[j] = last.before[j]
          /\ \A j \in 1..(i - 1) : Injectable(j) => last.after[j] = FieldResolve(j).val
          /\ \A e \in 1..Len(last.events) : last.events[e].obj # last.target

MismatchAfterInjection ==
    /\ InjectCall /\ last.target = LifecycleTarget
    /\ last.err = "not assignable to field type"
    /\ Injectable(1) /\ last.after[1] = "v1"
    /\ Mismatched(2) /\ last.shape[2].required # "true" /\ last.after[2] = Nil
    /\ Injectable(3) /\ last.after[3] = Nil

\* ----------------------------------------------------------------- teardown
\* the position in the iteration holds a Singleton with the lifecycle capability
Disposable(i) ==
    LET d == services[last.c][last.order[i]]
    IN d # NoDesc /\ d.Scope = Singleton /\ d.Instance # Nil /\ LifecycleAware(d.Instance)

InstanceAt(i) == services[last.c][last.order[i]].Instance

\* a pre-destroy hook returns an error for the instance at position i
HookFailsAt(i) ==
    /\ Disposable(i)
    /\ \E h \in 1..Len(preDestroyHooks[last.c]) :
          InstanceAt(i) \in preDestroyHooks[last.c][h].FailOn

\* the PreDestroy of the instance at position i, once invoked, fails
PreDestroyFailsAt(i) == Disposable(i) /\ ~HookFailsAt(i) /\ InstanceAt(i) \in last.failing

FailsAt(i) == HookFailsAt(i) \/ PreDestroyFailsAt(i)

\* the positions of the iteration that the call gets to: up to the first failure
Visited == {i \in 1..Len(last.order) : \A j \in 1..(i - 1) : ~FailsAt(j)}

\* the positions whose PreDestroy is due
Due == {i \in Visited : Disposable(i) /\ ~HookFailsAt(i)}

PreDestroyed == SelectSeq(last.events, LAMBDA e : e.kind = "PreDestroy")

\* C10: Cleanup ordering.  One Cleanup invokes PreDestroy once for each
\* Singleton with the lifecycle capability, in the order of its iteration: on
\* every one of them when nothing fails, and otherwise up to the first
\* failure (of a PreDestroy, which is then invoked, or of a pre-destroy hook,
\* which keeps the PreDestroy of its instance from being invoked) and on
\* none after it; it returns that failure, and success when nothing fails.
CleanupOrdering ==
    last.op = "Cleanup" =>
       /\ Len(PreDestroyed) = Cardinality(Due)
       /\ \A i \in Due :
             PreDestroyed[Cardinality({j \in Due : j <= i})].obj = InstanceAt(i)
       /\ (\A i \in 1..Len(last.order) : ~FailsAt(i))
             => /\ last.err = NoErr
                /\ Due = {i \in 1..Len(last.order) : Disposable(i)}
       /\ \A i \in Visited :
             /\ PreDestroyFailsAt(i) => last.err = "pre-destroy failed"
             /\ HookFailsAt(i) => last.err = "pre-destroy hook failed"
             /\ FailsAt(i) => \A j \in Due : j <= i

\* three singletons with PreDestroy and an accepting hook, the second of the
\* iteration failing
CleanupAbortedMidway ==
    /\ last.op = "Cleanup" /\ last.err = "pre-destroy failed"
    /\ preDestroyHooks[last.c] # <<>>
    /\ \A i \in 1..3 : Disposable(i)
    /\ ~FailsAt(1) /\ PreDestroyFailsAt(2)
    /\ Len(PreDestroyed) = 2
\* ------------------------------------------------------------------ aspects
ExecuteCall == last.op = "ExecuteAspects"

AdviceCalls(i) ==
    Cardinality({e \in 1..Len(last.events) :
                    last.events[e].kind = "Advice" /\ last.events[e].name = i})

\* an advice invoked before aspect i returned an error, which ended the call
AbortedBefore(i) ==
    \E j \in 1..(i - 1) :
        /\ aspects[last.c][j].Fails
        /\ \/ aspects[last.c][j].Kind \in {Before, After, Around, AfterReturning}
           \/ aspects[last.c][j].Kind = AfterThrowing /\ last.jp.Error # Nil

Among(n, list) == \E i \in 1..Len(list) : list[i] = n

\* C12: Profiles are replaced wholesale.  A new container has no active
\* profile; a SetActiveProfiles call makes the container's active names
\* exactly its arguments, and no other call on any container changes them;
\* IsProfileActive(n) and ProfileCondition{n}.Matches(c) both answer whether n
\* is among those names.
ProfilesReplacedWholesale ==
    /\ \A c \in Containers : active[c] = <<>>
    /\ [][ /\ last'.op = "SetActiveProfiles"
               => /\ active'[last'.c] = last'.profiles
                  /\ \A c \in Containers \ {last'.c} : active'[c] = active[c]
           /\ last'.op # "SetActiveProfiles" => active' = active
           /\ last'.op \in {"IsProfileActive", "Matches"}
               => last'.ok = Among(last'.q, active[last'.c]) ]_vars

\* a name given to an earlier SetActiveProfiles only is reported inactive by
\* Matches, on a container whose sibling still has it active
EarlierProfileInactive ==
    /\ last.op = "Matches" /\ last.c = Main /\ last.q = "dev" /\ ~last.ok
    /\ active[Main] = <<"test", "prod">>
    /\ Among("dev", active[2])
    /\ services[Main]["a"] # NoDesc
\* C13: an InjectStruct whose target is nil, a struct passed by value, or a
\* pointer to something that is not a struct fails, invokes nothing (no
\* factory, hook or PostConstruct of a resolution) and leaves every field as
\* it was.
BadTargetRejected ==
    (last.op = "InjectStruct" /\ (last.kind # "ptr" \/ last.target \notin Targets))
    => /\ last.err \in {"target must be a pointer", "target must be a pointer to struct"}
       /\ last.events = NoEvents
       /\ last.after = last.before

\* a struct passed by value while both of its qualifiers would resolve, one
\* of them through a factory
StructByValueRejected ==
    /\ last.op = "InjectStruct" /\ last.kind = "struct" /\ last.err # NoErr
    /\ \A i \in 1..Len(last.shape) : Considered(i) /\ FieldResolve(i).err = NoErr
    /\ services[last.c]["b"].Scope = Prototype
\* the factory invocations of the call
FactoryCalls == SelectSeq(last.events, LAMBDA e : e.kind = "Factory")

\* the fields whose resolution invokes a factory
ResolvedByFactory ==
    {i \in 1..Len(last.shape) :
        /\ Considered(i) /\ Reached(i)
        /\ services[last.c][last.shape[i].di].Scope = Prototype}

\* C14: a field without di tag and a field that cannot be set keep their
\* value and are not resolved (the only factories invoked are those of the
\* other fields); such fields never make the call fail, required or not:
\* the call succeeds unless another field or the target's lifecycle fails.
UninjectableFieldsUntouched ==
    InjectCall =>
       /\ \A i \in 1..Len(last.shape) :
             (last.shape[i].di = NoTag \/ ~last.shape[i].settable)
                => last.after[i] = last.before[i]
       /\ Len(FactoryCalls) = Cardinality(ResolvedByFactory)
       /\ ((\A i \in 1..Len(last.shape) : ~Aborting(i)) /\ TargetLifecycleOk)
             => last.err = NoErr

\* a call that succeeds past a required unexported field whose qualifier is
\* unregistered, an unexported field whose qualifier has a factory, and
\* injects the third field
UnexportedFieldsSkipped ==
    /\ InjectCall /\ last.err = NoErr /\ last.before = OldFields(last.shape)
    /\ last.shape[1].di = "c" /\ last.shape[1].required = "true"
    /\ services[last.c]["c"] = NoDesc /\ last.after[1] = OldValue
    /\ last.shape[2].di = "b" /\ services[last.c]["b"].Scope = Prototype
    /\ last.after[2] = OldValue /\ FactoryCalls = <<>>
    /\ last.shape[3].di = "a" /\ last.after[3] = "v1"
\* ------------------------------------------------------------ registration
\* C15: a Register of a nil service fails, whatever the qualifier and the
\* scope, invokes no hook and no PostConstruct, and leaves the qualifier maps
\* as they were, so that an unregistered qualifier stays unregistered.
NilServiceRejected ==
    [][ (last'.op = "Register" /\ last'.svc = Nil)
          => /\ last'.err = "cannot register nil service"
             /\ last'.events = NoEvents
             /\ services' = services
             /\ services[last'.c][last'.q] = NoDesc
                   => services'[last'.c][last'.q] = NoDesc ]_vars

\* nil registered as a Singleton under a fresh qualifier, with hooks in place
NilSingletonRefused ==
    /\ last.op = "Register" /\ last.svc = Nil /\ last.scope = Singleton
    /\ last.err = "cannot register nil service"
    /\ Len(postConstructHooks[last.c]) = MaxHooks
    /\ services[last.c][last.q] = NoDesc
LifecycleErrors == {"post-construct hook failed", "post-construct failed"}

\* the latest call is a Register(q, v, Singleton) that a hook or PostConstruct failed
LifecycleFailedRegister ==
    last.op = "Register" /\ last.scope = Singleton /\ last.err \in LifecycleErrors

\* C16: No partial state on lifecycle failure.  A Register(q, v, Singleton)
\* in which a post-construct hook or PostConstruct fails returns that error
\* and inserts no descriptor: the maps are as before and q has none.  A
\* Resolve(q) that follows reports not-found, or what the parent's Resolve
\* reports when there is a parent; a Register(q, ...) that follows is not
\* rejected as a duplicate.
NoPartialRegistration ==
    [][ /\ (last'.op = "Register" /\ last'.scope = Singleton /\ last'.err \in LifecycleErrors)
            => (services' = services /\ services'[last'.c][last'.q] = NoDesc)
        /\ (LifecycleFailedRegister /\ last'.op = "Resolve"
                /\ last'.c = last.c /\ last'.q = last.q)
            => IF parent[last.c] = NoContainer
               THEN last'.err = "no service found" /\ last'.val = Nil
               ELSE LET up == ResolveOutcome(parent[last.c], last.q, {})
                    IN last'.err = up.err /\ last'.val = up.val
        /\ (LifecycleFailedRegister /\ last'.op = "Register"
                /\ last'.c = last.c /\ last'.q = last.q)
            => last'.err # "service already registered" ]_vars

\* PostConstruct failed after an accepting hook had run: the qualifier has no
\* descriptor, and the parent has one to fall back to
LifecycleFailureLeftNoDescriptor ==
    /\ LifecycleFailedRegister /\ last.err = "post-construct failed"
    /\ postConstructHooks[last.c] # <<>>
    /\ Len(last.events) = Len(postConstructHooks[last.c]) + 1
    /\ services[last.c][last.q] = NoDesc
    /\ parent[last.c] = 2 /\ services[2][last.q] # NoDesc
\* the descriptor a Resolve(q) on c is served from: the one of the nearest
\* container up the parent links that has q (NoDesc when there is none)
ServingDescriptor(c, q) ==
    LET ks == {k \in 0..(NumContainers - 1) :
                  /\ \A j \in 0..k : Ancestor(c, j) # NoContainer
                  /\ \A j \in 0..(k - 1) : services[Ancestor(c, j)][q] = NoDesc
                  /\ services[Ancestor(c, k)][q] # NoDesc}
    IN IF ks = {} THEN NoDesc ELSE services[Ancestor(c, CHOOSE k \in ks : TRUE)][q]

\* C17: Unsupported scopes.  Register accepts a non-nil service under a fresh
\* qualifier with scope Request or Session, runs nothing, and inserts a
\* descriptor of that scope; a Resolve served from a descriptor of such a
\* scope returns the unsupported-scope error and nil, and invokes neither
\* the factory nor a hook nor PostConstruct.
UnsupportedScopes ==
    [][ /\ ( /\ last'.op = "Register" /\ last'.scope \in {Request, Session}
                /\ last'.svc # Nil /\ services[last'.c][last'.q] = NoDesc )
            => /\ last'.err = NoErr /\ last'.events = NoEvents
               /\ services'[last'.c][last'.q] # NoDesc
               /\ services'[last'.c][last'.q].Scope = last'.scope
        /\ ( /\ last'.op = "Resolve"
                /\ ServingDescriptor(last'.c, last'.q) # NoDesc
                /\ ServingDescriptor(last'.c, last'.q).Scope \in {Request, Session} )
            => /\ last'.err = "unsupported scope" /\ last'.val = Nil
               /\ last'.events = NoEvents ]_vars

\* a Resolve of a Session descriptor of a service with PostConstruct, with
\* hooks in place
SessionScopeUnresolvable ==
    /\ last.op = "Resolve" /\ last.err = "unsupported scope"
    /\ services[last.c][last.q].Scope = Session
    /\ services[last.c][last.q].Factory = "v1"
    /\ postConstructHooks[last.c] # <<>>
\* ------------------------------------------------- readers and the writer
\* threads between Lock's return and Unlock in Register
Writing == {t \in RegisterThreads : pc[t] \in {"check", "postconstruct", "insert", "unlock"}}

\* threads between RLock's return and RUnlock in Resolve
Reading == {r \in ResolveThreads : pc[r] \in {"lookup", "runlock"}}

\* C18: Thread safety of the registry.  No Resolve is between its RLock and
\* RUnlock while a Register is between its Lock and Unlock, and no two
\* Registers are; a Resolve(q) that has returned has returned either the
\* not-found error and nil, or the service v of a Register(q, v, Singleton)
\* that has completed, after v's PostConstruct (if it has one) was invoked
\* once, v being q's Singleton instance.
RegistryThreadSafe ==
    /\ Writing # {} => (Reading = {} /\ Cardinality(Writing) = 1)
    /\ \A r \in ResolveThreads :
          pc[r] = "done" =>
             \/ ret[r].err = "no service found" /\ ret[r].val = Nil
             \/ \E t \in RegisterThreads :
                   /\ call[t].q = call[r].q /\ ret[r].val = call[t].svc
                   /\ ret[r].err = NoErr
                   /\ pc[t] = "done" /\ ret[t].err = NoErr
                   /\ IsSingletonOf(Main, call[t].q, call[t].svc)
                   /\ LifecycleAware(call[t].svc)
                         => Invocations(ret[t].events, "PostConstruct", call[t].svc) = 1

\* two Resolves of a qualifier inside their read sections at the same time,
\* while the Register of that qualifier waits for the lock
ResolvesOverlap ==
    \E r1, r2 \in ResolveThreads, t \in RegisterThreads :
        /\ r1 # r2 /\ pc[r1] = "lookup" /\ pc[r2] = "lookup"
        /\ call[r1].q = call[t].q /\ call[r2].q = call[t].q
        /\ pc[t] = "lock"
\* ------------------------------------------------------ post-construct order
\* the events of the latest call that are hook invocations, and those that
\* are PostConstruct invocations
HookRuns == SelectSeq(last.events, LAMBDA e : e.kind = "post-construct hook")
PostConstructRuns == SelectSeq(last.events, LAMBDA e : e.kind = "PostConstruct")

HookFailsOn(hooks, obj) == \E i \in 1..Len(hooks) : obj \in hooks[i].FailOn

\* how many hooks a run over the list invokes for obj: all of them, or those
\* up to and including the first that returns an error
HooksDue(hooks, obj) ==
    IF ~HookFailsOn(hooks, obj) THEN Len(hooks)
    ELSE CHOOSE i \in 1..Len(hooks) :
            /\ obj \in hooks[i].FailOn
            /\ \A j \in 1..(i - 1) : obj \notin hooks[j].FailOn

\* events are: the due hooks in list order on obj, then, when no hook failed
\* and obj has the capability, its PostConstruct
LifecycleRanOn(obj, events, hooks) ==
    /\ Len(HookRuns) = HooksDue(hooks, obj)
    /\ \A i \in 1..Len(HookRuns) :
          /\ events[i] = HookRuns[i]
          /\ HookRuns[i].name = hooks[i].Name /\ HookRuns[i].obj = obj
    /\ Len(PostConstructRuns) =
          (IF LifecycleAware(obj) /\ ~HookFailsOn(hooks, obj) THEN 1 ELSE 0)
    /\ \A i \in 1..Len(PostConstructRuns) :
          PostConstructRuns[i].obj = obj /\ events[Len(events)] = PostConstructRuns[i]

\* the latest call is a Register with Singleton scope that passed the nil
\* and duplicate checks
SingletonRegistration ==
    /\ last.op = "Register" /\ last.scope = Singleton
    /\ last.err \notin {"cannot register nil service", "service already registered"}

\* C19: a Register with Singleton scope runs every post-construct hook, in
\* list order, against the service, whether or not the service has the
\* lifecycle capability, and then the service's PostConstruct if it has it.
HooksRunForEveryService ==
    SingletonRegistration
       => LifecycleRanOn(last.svc, last.events, postConstructHooks[last.c])

\* the container whose descriptor serves a Resolve(q) on c
ServingContainer(c, q) ==
    CHOOSE a \in Containers :
        \E k \in 0..(NumContainers - 1) :
            /\ a = Ancestor(c, k)
            /\ \A j \in 0..(k - 1) : services[Ancestor(c, j)][q] = NoDesc
            /\ services[a][q] # NoDesc

\* the latest call is a Resolve served from a Prototype descriptor
PrototypeResolution ==
    /\ last.op = "Resolve"
    /\ ServingDescriptor(last.c, last.q) # NoDesc
    /\ ServingDescriptor(last.c, last.q).Scope = Prototype

\* C20: a Resolve of a Prototype qualifier invokes the descriptor's factory
\* and then runs the post-construct hooks, in list order, against the
\* instance, followed by the instance's PostConstruct if it has the
\* capability; when one of them fails the call returns that failure and nil,
\* and otherwise the instance.
PrototypeLifecycleOnResolve ==
    PrototypeResolution =>
       LET d == ServingDescriptor(last.c, last.q)
           hooks == postConstructHooks[ServingContainer(last.c, last.q)]
       IN /\ last.events # <<>>
          /\ last.events[1].kind = "Factory" /\ last.events[1].obj = d.Factory
          /\ LifecycleRanOn(d.Factory, Tail(last.events), hooks)
          /\ IF \E e \in 1..Len(last.events) : ~last.events[e].ok
             THEN last.err \in LifecycleErrors /\ last.val = Nil
             ELSE last.err = NoErr /\ last.val = d.Factory
\* --------------------------------------------------------------- hook order
\* the hook invocations of the latest call on obj, in the order made
RunsOn(kind, obj) == SelectSeq(last.events, LAMBDA e : e.kind = kind /\ e.obj = obj)

\* the objects on which the latest call invoked PostConstruct (PreDestroy)
Completed(kind) ==
    {last.events[i].obj : i \in {j \in 1..Len(last.events) : last.events[j].kind = kind}}

\* on every object the hooks invoked are the first hooks of the list, in list
\* order, and the whole list when the object's own method was reached
FollowsList(kind, done, hooks) ==
    \A obj \in Values \cup Targets :
        LET r == RunsOn(kind, obj) IN
        /\ Len(r) <= Len(hooks)
        /\ \A i \in 1..Len(r) : r[i].name = hooks[i].Name
        /\ obj \in Completed(done) => Len(r) = Len(hooks)

HookRunsFollowLists ==
    last.c # NoContainer =>
        /\ FollowsList("post-construct hook", "PostConstruct", postConstructHooks[last.c])
        /\ FollowsList("pre-destroy hook", "PreDestroy", preDestroyHooks[last.c])

HooksRunInPriorityOrder ==
    \A kind \in {"post-construct hook", "pre-destroy hook"}, obj \in Values \cup Targets :
        LET r == RunsOn(kind, obj) IN
        \A i, j \in 1..Len(r) :
            i < j => HookPriority(r[i].name) <= HookPriority(r[j].name)
\* ------------------------------------------------------------ advice order
\* aspect i of the latest call's container has an advice to invoke for the
\* call's join point
Invoking(i) ==
    \/ aspects[last.c][i].Kind \in {Before, After, Around, AfterReturning}
    \/ aspects[last.c][i].Kind = AfterThrowing /\ last.jp.Error # Nil

AdviceOrder ==
    ExecuteCall =>
       /\ \A e \in 1..Len(last.events) : last.events[e].kind = "Advice"
       /\ \A e1, e2 \in 1..Len(last.events) :
             e1 < e2 => last.events[e1].name < last.events[e2].name
       /\ \A i \in 1..Len(aspects[last.c]) :
             /\ AbortedBefore(i) => AdviceCalls(i) = 0
             /\ (~AbortedBefore(i) /\ Invoking(i)) => AdviceCalls(i) = 1
             /\ (~AbortedBefore(i) /\ Invoking(i) /\ aspects[last.c][i].Fails)
                   => last.err = PhaseName(aspects[last.c][i].Kind)
       /\ (\A i \in 1..Len(aspects[last.c]) : ~(Invoking(i) /\ aspects[last.c][i].Fails))
             => last.err = NoErr

\* C23: AddAspect puts its aspect at the end of the list; ExecuteAspects
\* invokes the advice in list order; the first advice that fails ends the
\* call, which returns that failure and invokes no advice of a later aspect;
\* when no advice fails the call returns success, every aspect with an advice
\* for the join point having been invoked once; ExecuteAspects leaves the
\* list as it was.
AspectsExecuteInOrder ==
    [][ /\ last'.op = "AddAspect"
            => aspects'[last'.c] = Append(aspects[last'.c], last'.aspect)
        /\ last'.op = "ExecuteAspects" => aspects' = aspects
        /\ AdviceOrder' ]_vars

\* the first of two aspects failed: its error came back and the second
\* aspect's advice was not invoked
AdviceChainAborted ==
    /\ ExecuteCall /\ last.err = "around aspect failed"
    /\ Len(aspects[last.c]) = 2
    /\ aspects[last.c][1].Kind = Around /\ aspects[last.c][1].Fails
    /\ aspects[last.c][2].Kind = After /\ ~aspects[last.c][2].Fails
    /\ AdviceCalls(1) = 1 /\ AdviceCalls(2) = 0
\* ------------------------------------------------- appends and iterations
\* the threads between their read of c's hook slice and the end of its loop
IteratingHooks(c) == {u \in Threads : call[u].c = c /\ pc[u] = "hooks"}

\* the threads between their read of c's aspect slice and the end of its loop
IteratingAspects(c) == {u \in Threads : call[u].c = c /\ pc[u] = "advice"}

\* the step is taken by a thread that holds c.mu exclusively
StepOfLockHolder(c) ==
    \E t \in Threads : mu[MutexOf(c)].writer = t /\ pc'[t] # pc[t]

\* C24: a step that changes a hook list or the aspect list of a container is
\* a step of the thread that holds the container's exclusive lock, and it is
\* taken while no other thread is iterating over that list.
ListsMutatedUnderLock ==
    [][ \A c \in Containers :
          /\ ( \/ postConstructHooks'[c] # postConstructHooks[c]
               \/ preDestroyHooks'[c] # preDestroyHooks[c] )
                => (StepOfLockHolder(c) /\ IteratingHooks(c) = {})
          /\ aspects'[c] # aspects[c]
                => (StepOfLockHolder(c) /\ IteratingAspects(c) = {}) ]_vars

\* ------------------------------------------------------ calls that complete
\* C25: Deadlock freedom in a hierarchy.  With the containers in an acyclic
\* parent chain and callbacks that call no container, every interleaving of
\* concurrent Resolve, Register, SetParent, SetActiveProfiles, AddAspect and
\* Cleanup calls ends with every call returned.
AllCallsComplete == <>(\A t \in Threads : pc[t] = "done")

\* a Resolve that holds the child's read lock waits for the read lock of
\* the parent, which a writer holds, while a writer waits for the child's lock
ReaderWaitsForParent ==
    \E t \in Threads :
        /\ pc[t] = "frlock" /\ Len(locals[t].stack) = 2
        /\ mu[Top(t)].writer # NoThread
        /\ mu[locals[t].stack[1]].pending # {}
\* ------------------------------------------------- the target's lifecycle
\* the call stopped at a field
Aborted == \E i \in 1..Len(last.shape) : Reached(i) /\ Aborting(i)

\* the events of the Resolve calls the field loop makes, from field i on
RECURSIVE FieldEventsFrom(_)
FieldEventsFrom(i) ==
    IF i > Len(last.shape) \/ ~Reached(i) THEN NoEvents
    ELSE (IF Considered(i) THEN FieldResolve(i).events ELSE NoEvents)
         \o FieldEventsFrom(i + 1)

TargetPositions == {e \in 1..Len(last.events) : last.events[e].obj = last.target}

\* the target's lifecycle ran, once, after everything else the call invoked:
\* the hooks in list order up to the first that fails, then, when none
\* failed, the target's PostConstruct, whose failure is the call's
TargetLifecycleRan ==
    LET hooks == postConstructHooks[last.c]
        runs == RunsOn("post-construct hook", last.target)
        own == RunsOn("PostConstruct", last.target)
    IN /\ Len(runs) = HooksDue(hooks, last.target)
       /\ \A i \in 1..Len(runs) : runs[i].name = hooks[i].Name
       /\ Len(own) = (IF HookFailsOn(hooks, last.target) THEN 0 ELSE 1)
       /\ TargetPositions =
             (Len(last.events) - Len(runs) - Len(own) + 1)..Len(last.events)
       /\ \A e \in TargetPositions :
             last.events[e].kind = "PostConstruct" => e = Len(last.events)
       /\ HookFailsOn(hooks, last.target) => last.err = "post-construct hook failed"
       /\ (~HookFailsOn(hooks, last.target) /\ last.target \in last.failing)
             => last.err = "post-construct failed"
       /\ (~HookFailsOn(hooks, last.target) /\ last.target \notin last.failing)
             => last.err = NoErr

\* when, and on what, InjectStruct runs the lifecycle of its target
TargetLifecycle ==
    IF ~Aborted /\ LifecycleAware(last.target)
    THEN TargetLifecycleRan
    ELSE TargetPositions = {}

\* C26 as stated: InjectStruct runs the target's lifecycle after all fields
\* are processed (the hooks in list order against the target, then its
\* PostConstruct once), not at all when a field aborted the injection or the
\* target lacks the capability, and during the call no hook and no
\* PostConstruct is invoked on a value injected into a field.
TargetLifecycleOnly ==
    InjectCall =>
       /\ TargetLifecycle
       /\ \A e \in 1..Len(last.events) :
             last.events[e].kind \in {"post-construct hook", "PostConstruct"}
                => last.events[e].obj = last.target

\* C26, amended: as above, but what is invoked on the values of the fields
\* is what the Resolve of each field invokes (for a Prototype descriptor the
\* factory, the hooks and PostConstruct of its instance, and nothing for a
\* Singleton): the lifecycle step of InjectStruct adds nothing on them.
TargetLifecycleAfterFields ==
    InjectCall =>
       /\ TargetLifecycle
       /\ SubSeq(last.events, 1, Len(last.events) - Cardinality(TargetPositions))
             = FieldEventsFrom(1)

\* two fields injected from a Prototype, whose instance got the hooks and
\* PostConstruct at each Resolve, then the two hooks and PostConstruct on the
\* target
TargetLifecycleAfterPrototypeFields ==
    /\ InjectCall /\ last.target = LifecycleTarget /\ last.err = NoErr
    /\ Len(postConstructHooks[last.c]) = 2
    /\ postConstructHooks[last.c][1] # postConstructHooks[last.c][2]
    /\ last.after[1] = "v1" /\ last.after[2] = "v2" /\ last.after[3] = "v2"
    /\ Len(RunsOn("PostConstruct", "v2")) = 2
    /\ Len(RunsOn("post-construct hook", LifecycleTarget)) = 2
    /\ Len(RunsOn("PostConstruct", LifecycleTarget)) = 1
\* ------------------------------------------------- teardown, hook by hook
\* how many handlers and methods Cleanup invokes at position i of its iteration
SegmentLen(i) ==
    IF i \in Visited /\ Disposable(i)
    THEN HooksDue(preDestroyHooks[last.c], InstanceAt(i))
         + (IF HookFailsAt(i) THEN 0 ELSE 1)
    ELSE 0

\* how many it has invoked before it gets to position i
RECURSIVE SegmentStart(_)
SegmentStart(i) == IF i = 1 THEN 0 ELSE SegmentStart(i - 1) + SegmentLen(i - 1)

\* C27: within Cleanup, at each Singleton with the lifecycle capability that
\* the iteration gets to, the pre-destroy hooks are invoked in list order on
\* the instance and then the instance's PreDestroy; a hook that fails ends
\* Cleanup: no later hook, not that instance's PreDestroy and nothing for a
\* later Singleton is invoked, and the hook's failure is returned.
PreDestroyHooksFirst ==
    last.op = "Cleanup" =>
       LET hooks == preDestroyHooks[last.c] IN
       /\ Len(last.events) = SegmentStart(Len(last.order) + 1)
       /\ \A i \in Visited :
             /\ Disposable(i) =>
                   \A k \in 1..SegmentLen(i) :
                      LET e == last.events[SegmentStart(i) + k] IN
                      /\ e.obj = InstanceAt(i)
                      /\ IF k <= Len(hooks)
                         THEN e.kind = "pre-destroy hook" /\ e.name = hooks[k].Name
                         ELSE e.kind = "PreDestroy"
             /\ HookFailsAt(i) =>
                   /\ last.err = "pre-destroy hook failed"
                   /\ Len(last.events) = SegmentStart(i) + SegmentLen(i)
                   /\ ~last.events[Len(last.events)].ok
                   /\ last.events[Len(last.events)].kind = "pre-destroy hook"

\* the second hook rejected the first Singleton of the iteration: its
\* PreDestroy and the other Singleton were skipped
SecondHookEndedCleanup ==
    /\ last.op = "Cleanup" /\ last.err = "pre-destroy hook failed"
    /\ Len(preDestroyHooks[last.c]) = 2
    /\ preDestroyHooks[last.c][1].FailOn = {} /\ preDestroyHooks[last.c][2].FailOn # {}
    /\ Disposable(1) /\ InstanceAt(1) = "v2"
    /\ Disposable(2) /\ InstanceAt(2) = "v1"
    /\ Len(last.events) = 2
    /\ Completed("PreDestroy") = {}

\* C28: Cleanup invokes pre-destroy hooks and PreDestroy only on instances of
\* Singleton descriptors that have the lifecycle capability; descriptors of
\* another scope and Singletons without the capability get nothing invoked
\* and do not make Cleanup fail: a Cleanup that fails failed at a Singleton
\* with the capability, and one that finds none of these returns success.
CleanupSkipsOthers ==
    last.op = "Cleanup" =>
       /\ \A e \in 1..Len(last.events) :
             \E i \in 1..Len(last.order) :
                Disposable(i) /\ last.events[e].obj = InstanceAt(i)
       /\ last.err # NoErr => \E i \in 1..Len(last.order) : Disposable(i) /\ FailsAt(i)
       /\ (\A i \in 1..Len(last.order) : ~Disposable(i))
             => (last.events = NoEvents /\ last.err = NoErr)

\* a Cleanup of a Prototype whose PreDestroy would fail and of a Singleton
\* without the capability, with a hook in place: nothing invoked, success
PrototypeNotTornDown ==
    /\ last.op = "Cleanup" /\ last.err = NoErr /\ last.events = NoEvents
    /\ "v1" \in last.failing
    /\ preDestroyHooks[last.c] # <<>>
    /\ services[last.c]["a"].Scope = Prototype /\ services[last.c]["a"].Factory = "v1"
    /\ IsSingletonOf(last.c, "b", "v3")
\* ------------------------------------------------------- what is never removed
IsPrefix(old, new) == Len(old) <= Len(new) /\ SubSeq(new, 1, Len(old)) = old

\* C29: Append-only registry.  No call removes or replaces a descriptor of
\* a container's qualifier map, or an element of its hook lists or of its
\* aspect list: the map keeps every binding it has and the lists keep what
\* they hold in front.  Cleanup changes no map; a Resolve made right after a
\* Cleanup returns a Singleton registered before it, and a Register of a
\* bound qualifier made right after a Cleanup is rejected as a duplicate.
RegistryAppendOnly ==
    [][ /\ \A c \in Containers :
              /\ \A q \in Registered(c) : services'[c][q] = services[c][q]
              /\ IsPrefix(postConstructHooks[c], postConstructHooks'[c])
              /\ IsPrefix(preDestroyHooks[c], preDestroyHooks'[c])
              /\ IsPrefix(aspects[c], aspects'[c])
        /\ last'.op = "Cleanup" => services' = services
        /\ (last.op = "Cleanup" /\ last'.op = "Resolve" /\ last'.c = last.c)
              => \A v \in Values :
                    IsSingletonOf(last.c, last'.q, v)
                       => (last'.val = v /\ last'.err = NoErr)
        /\ ( /\ last.op = "Cleanup" /\ last'.op = "Register" /\ last'.c = last.c
              /\ last'.svc # Nil /\ last'.q \in Registered(last.c) )
              => last'.err = "service already registered" ]_vars

\* right after a Cleanup that tore the Singleton down, its descriptor, the
\* hooks and the aspects are all still there
RegistryIntactAfterCleanup ==
    /\ last.op = "Cleanup" /\ last.err = NoErr
    /\ "v1" \in Completed("PreDestroy")
    /\ IsSingletonOf(Main, "a", "v1")
    /\ Len(postConstructHooks[Main]) = MaxHooks
    /\ preDestroyHooks[Main] # <<>>
    /\ Len(aspects[Main]) = MaxAspects

\* C30: Descriptor invariant.  In every reachable state every descriptor of
\* every container's qualifier map has a cached instance exactly when its
\* scope is Singleton, and always has a factory (so a Prototype descriptor
\* has no instance and a factory); no Resolve returns the error "singleton
\* instance is nil".
DescriptorInvariant ==
    /\ \A c \in Containers, q \in Qualifiers :
          LET d == services[c][q] IN
          d # NoDesc => /\ (d.Instance # Nil <=> d.Scope = Singleton)
                        /\ d.Factory # Nil
    /\ last.op = "Resolve" => last.err # "singleton instance is nil"

\* a Singleton was resolved from its cached instance while the parent holds
\* a Prototype descriptor, which has a factory and no instance
SingletonResolvedBesidePrototype ==
    /\ last.op = "Resolve" /\ last.c = Main /\ last.err = NoErr
    /\ last.val = "v1"
    /\ IsSingletonOf(Main, "a", "v1")
    /\ parent[Main] = 2
    /\ services[2]["a"] # NoDesc
    /\ services[2]["a"].Scope = Prototype
    /\ services[2]["a"].Instance = Nil
    /\ services[2]["a"].Factory = "v2"

\* ------------------------------------------------- local before the parent
\* C31: Local descriptors shadow the parent.  A Resolve(q) on a container
\* that has a descriptor for q has the outcome that descriptor alone gives
\* (its instance, its factory with the container's own hooks, or its error),
\* whatever the parent holds under q; the value returned is never one that
\* only the parent holds, and an error of the local descriptor is returned
\* although the parent could have served the call.
LocalShadowsParent ==
    ( /\ last.op = "Resolve"
      /\ services[last.c][last.q] # NoDesc )
    => LET d == services[last.c][last.q]
       IN /\ \E f \in SUBSET Values :
                LET r == ResolveLocal(last.c, d, f)
                IN last.val = r.val /\ last.err = r.err /\ last.events = r.events
          /\ last.val \in {Nil, d.Factory}
          /\ \A i \in 1..Len(last.events) : last.events[i].obj = d.Factory
          /\ d.Scope \in {Request, Session} => last.err = "unsupported scope"

\* the local Prototype's PostConstruct failed and the call returned that
\* error, while the parent holds a Singleton under the same qualifier
LocalErrorNotServedByParent ==
    /\ last.op = "Resolve" /\ last.c = Main
    /\ last.err = "post-construct failed" /\ last.val = Nil
    /\ services[Main]["a"] # NoDesc
    /\ services[Main]["a"].Scope = Prototype
    /\ parent[Main] = 2
    /\ IsSingletonOf(2, "a", "v2")

\* C32: Resolve terminates for every parent configuration.  Whatever parents
\* SetParent has set, a container made its own parent or two containers made
\* each other's parent included, every Resolve returns: the recursion up the
\* parent links ends, with the not-found error when no container it visits
\* has the qualifier.
ResolveTerminates ==
    last.op = "Resolve" =>
        /\ last.err # "stack overflow"
        /\ (\A a \in ParentChain(last.c) : services[a][last.q] = NoDesc)
              => last.err = "no service found"

\* ------------------------------------------------------ re-entrant handlers
\* C33: Re-entrant callbacks complete.  When a handler invoked by Register,
\* Cleanup or ExecuteAspects calls a container, its call returns and the
\* call that invoked the handler then completes, also when the container it
\* calls is the one whose lock the invoking call holds.
ReentrantCallbacksComplete ==
    \A t \in Threads :
        (locals[t].stack # <<>>) ~> (pc[t] = "done" /\ locals[t].stack = <<>>)

ManagerMatchesContainer ==
    last.op = "AspectManager.ExecuteAspects" =>
        LET r == ExecuteFrom(aspects[last.c], 1, last.jp)
        IN /\ last.events = r.events
           /\ (last.err = NoErr) <=> (r.err = NoErr)
           /\ \A i \in 1..Len(last.events) :
                 aspects[last.c][last.events[i].name].Kind = AfterThrowing
                    => last.jp.Error # Nil

\* ------------------------------------------------ once, at registration
\* C36: A value with PostConstruct registered as Singleton has every
\* post-construct hook of the container and its PostConstruct run once by
\* the Register that succeeds; no later Resolve, on the container or on a
\* child, and no InjectStruct that injects the value into a field runs a
\* factory, a hook or PostConstruct on it again (for a value that is not
\* also bound as a Prototype).
SingletonLifecycleOnce ==
    [][ /\ ( /\ last'.op = "Register" /\ last'.err = NoErr
             /\ last'.scope = Singleton /\ LifecycleAware(last'.svc) )
           => /\ Invocations(last'.events, "PostConstruct", last'.svc) = 1
              /\ Invocations(last'.events, "post-construct hook", last'.svc)
                    = Len(postConstructHooks[last'.c])
        /\ last'.op \in {"Resolve", "InjectStruct"}
           => \A c \in Containers, q \in Qualifiers :
                 ( /\ services[c][q] # NoDesc
                   /\ services[c][q].Scope = Singleton
                   /\ \A c2 \in Containers, q2 \in Qualifiers :
                         ~( /\ services[c2][q2] # NoDesc
                            /\ services[c2][q2].Scope = Prototype
                            /\ services[c2][q2].Factory = services[c][q].Instance ) )
                 => \A i \in 1..Len(last'.events) :
                       last'.events[i].obj # services[c][q].Instance ]_vars

\* the child injected the parent's Singleton into a field and ran the
\* lifecycle of the target alone
SingletonInjectedByChild ==
    /\ last.op = "InjectStruct" /\ last.c = 2 /\ last.err = NoErr
    /\ parent[2] = Main
    /\ IsSingletonOf(Main, "a", "v1")
    /\ last.after[1] = "v1"
    /\ Len(postConstructHooks[Main]) = MaxHooks
    /\ Invocations(last.events, "PostConstruct", LifecycleTarget) = 1
    /\ Invocations(last.events, "PostConstruct", "v1") = 0

\* -------------------------------------------- injection is not one step
\* C37: InjectStruct is not atomic with respect to Register.  The injecting
\* thread holds the container's read lock only inside the Resolve of one
\* field, never between two fields, and each such Resolve excludes the
\* writer; the registry never holds b without a.  (That the target can end
\* with field a unset and field b injected is the state FieldBWithoutFieldA.)
InjectionNotAtomic ==
    /\ "b" \in Registered(Main) => "a" \in Registered(Main)
    /\ \A t \in Threads :
          call[t].op = "InjectStruct"
             => /\ (t \in mu[Main].readers) <=> (pc[t] \in {"field", "fieldunlock"})
                /\ t \in mu[Main].readers => mu[Main].writer = NoThread

\* the injection has returned success with field a left unset and field b
\* injected, and both qualifiers are registered
FieldBWithoutFieldA ==
    /\ call[1].op = "InjectStruct" /\ pc[1] = "done" /\ ret[1].err = NoErr
    /\ locals[1].slice = <<Nil, "v2">>
    /\ IsSingletonOf(Main, "a", "v1")
    /\ IsSingletonOf(Main, "b", "v2")

\* --------------------------------------------------- Cleanup, and again
\* C38: Cleanup records no destroyed state.  A Cleanup that follows a
\* Cleanup of the same container and returns success invokes every
\* pre-destroy hook and PreDestroy once for every Singleton descriptor of a
\* value with the capability; when the Cleanup before it succeeded too, it
\* invokes on every value what that one invoked, and called with the same
\* map order and the same failing handlers as a Cleanup that aborted, it
\* starts from the first descriptor again and aborts where that one did.
CleanupRestartsFromScratch ==
    [][ (last.op = "Cleanup" /\ last'.op = "Cleanup" /\ last'.c = last.c)
        => /\ last'.err = NoErr
              => \A v \in Values :
                    LifecycleAware(v)
                    => LET n == Cardinality({q \in Qualifiers :
                                                IsSingletonOf(last'.c, q, v)})
                       IN /\ Invocations(last'.events, "PreDestroy", v) = n
                          /\ Invocations(last'.events, "pre-destroy hook", v)
                                = n * Len(preDestroyHooks[last'.c])
           /\ (last.err = NoErr /\ last'.err = NoErr)
              => \A v \in Values, k \in {"PreDestroy", "pre-destroy hook"} :
                    Invocations(last'.events, k, v) = Invocations(last.events, k, v)
           /\ (last'.order = last.order /\ last'.failing = last.failing)
              => (last'.events = last.events /\ last'.err = last.err) ]_vars

\* a Cleanup right after a successful Cleanup has run the hooks and
\* PreDestroy on the Singleton v1 once more
SecondCleanupToreDownAgain ==
    /\ last.op = "Cleanup" /\ last.prev = NoErr /\ last.err = NoErr
    /\ IsSingletonOf(Main, "a", "v1")
    /\ preDestroyHooks[Main] # <<>>
    /\ Invocations(last.events, "PreDestroy", "v1") = 1
    /\ Invocations(last.events, "pre-destroy hook", "v1") = Len(preDestroyHooks[Main])
====
